---- MODULE Spec2Model ----
(***************************************************************************)
(* The event dispatcher (src/src/client/dispatcher.rs) and the runner loop *)
(* (src/src/runner/runner.rs) of the chat client, as one state machine.    *)
(*                                                                         *)
(* The registry event_map maps an event type to its list of                *)
(* (private, sender) pairs; every sender feeds one unbounded channel,      *)
(* whose receiving half is an EventStream held by a user task, by a        *)
(* pending wait_for call or by the runner (its auto-PONG listener).  The   *)
(* runner reads frames, dispatches them, answers PING and drains the       *)
(* bounded outbound channel to the socket.                                 *)
(***************************************************************************)
EXTENDS Integers, Sequences, FiniteSets, TLC

\* ------------------------------------------------------------ bounds ----
\* Frames the socket delivers in one run.
MaxFrames == 2
\* Symbols of a line handed to a parser.
MaxLine == 4
\* Frames in one buffer handed to decode_one.
MaxBatch == 3
\* Filters registered on one Client.
MaxFilters == 2
\* Capabilities in one UserConfig.
MaxCaps == 3
\* Ticks of the rate limiter's clock.
MaxTime == 4
\* Chunks the user's writers enqueue in one run.
MaxWrites == 2
\* Capacity of the outbound channel (64 in Runner::new, scaled down).
ChannelCap == 2

None == "None"

\* Receiving halves: two user streams, two wait_for callers, the runner's
\* auto-PONG listener.
Streams == {"s1", "s2"}
Waiters == {"w1", "w2"}
PingId == "ping"
Ids == Streams \cup Waiters \cup {PingId}

Tokens == {"a", "b"}

\* The event types the dispatcher is built with (the table of mappings).
Events ==
    {"Cap", "ClearChat", "ClearMsg", "GlobalUserState", "HostTarget",
     "IrcReady", "Join", "Mode", "Names", "Notice", "Part", "Ping", "Pong",
     "Privmsg", "Ready", "Reconnect", "RoomState", "UserNotice",
     "UserState", "All", "Raw"}

VARIABLES
    event_map,   \* Dispatcher.event_map: event -> Seq([private, id])
    cached,      \* Dispatcher.cached: event -> message or None
    queue,       \* id -> messages sent on the channel and not yet received
    rx,          \* id -> "none" | "open" | "ended" | "dropped" (the EventStream)
    sevent,      \* stream -> the event it subscribed to
    yielded,     \* stream -> the messages its next() has returned
    wpc,         \* waiter -> "idle" | "pending" | "done"
    wres,        \* waiter -> what its last wait_for returned
    wfast,       \* waiter -> its last wait_for returned without suspending
    wseen,       \* waiter -> values wait_for had returned when it was called
    returned,    \* values that completed wait_for calls have returned
    rpc,         \* runner: "new" | "select" | "select_noread" | "pong" | "done"
    status,      \* runner: what run() returned
    pong_tok,    \* runner: the token of the PONG being sent
    abort,       \* the Abort flag shared with Control
    handles,     \* the user still holds the Control and its Writer clones
    out_chan,    \* the outbound channel (bounded)
    written,     \* chunks written to the socket and flushed
    nwrites,     \* chunks the user's writers have enqueued
    log,         \* frames read from the socket and dispatched, in order
    sub_at,      \* id -> Len(log) when it subscribed
    end_at,      \* id -> Len(log) when its sender left the registry
    cleared,     \* id -> [at, by]: Len(log) and the operation, when a clear
                 \*       was called on its subscription
    input,       \* the argument of the library function under check (for
                 \*       a Client: the lines it has read)
    result,      \* <<>> before the call, <<r>> once it returned r
    filters,     \* Client.filters: Seq([key, tok]), in insertion order
    tokgen,      \* TokenGen: the next token
    wire,        \* what the Client has written to its socket
    invoked,     \* the filter invocations: Seq([tok, msg]), in order
    offed,       \* the tokens Client::off has been called with
    registered,  \* every filter Client::on has registered: Seq([key, tok])
    now,         \* the clock of the rate limiter, in ticks
    tokens,      \* the tokens in its bucket
    last_refill, \* the time of its last refill tick
    wakers,      \* its wake list: the writers suspended in take, oldest first
    took,        \* the times at which a take completed, in order
    emap,        \* ng EventMap: [inner: type -> Seq(Id), id: the next Id]
    recv,        \* Id -> "none" | "open" | "closed" (the Receiver), and
                 \*       what it was sent: [state, got]
    cpc,         \* Client clone -> [line, step]: the write_line it is in
    shared       \* the shared writer: bytes written, how many are flushed,
                 \*       and the write_line calls in the order of the lock

vars == <<event_map, cached, queue, rx, sevent, yielded, wpc, wres, wfast,
          wseen, returned, rpc, status, pong_tok, abort, handles, out_chan,
          written, nwrites, log, sub_at, end_at, cleared, input, result,
          filters, tokgen, wire, invoked, offed, registered, now, tokens,
          last_refill, wakers, took, emap, recv, cpc, shared>>

disp_vars == <<event_map, cached, queue, rx>>
stream_vars == <<sevent, yielded>>
wait_vars == <<wpc, wres, wfast, wseen, returned>>
run_vars == <<rpc, status, pong_tok>>
ctl_vars == <<abort, handles>>
out_vars == <<out_chan, written, nwrites>>
ghost_vars == <<sub_at, end_at, cleared>>
client_vars == <<filters, tokgen, wire, invoked, offed, registered>>
rate_vars == <<now, tokens, last_refill, wakers, took>>
ng_vars == <<emap, recv>>
conc_vars == <<cpc, shared>>
lib_vars == <<input, result, client_vars, rate_vars, ng_vars, conc_vars>>
sys_vars == <<disp_vars, stream_vars, wait_vars, run_vars, ctl_vars,
              out_vars, log, ghost_vars>>

\* ------------------------------------------------------------ frames ----
\* A decoded frame: its command token, its trailing data (the token of a
\* PING) and whether its typed projection succeeds.
Frame(c, t, ok) == [command |-> c, token |-> t, ok |-> ok]

PingFrames == {Frame("PING", t, TRUE) : t \in Tokens}
ReadyFrame == Frame("001", "", TRUE)
PrivmsgFrame == Frame("PRIVMSG", "", TRUE)
\* A PRIVMSG without its channel argument: decodes, does not project.
BadPrivmsgFrame == Frame("PRIVMSG", "", FALSE)
\* A command the dispatcher has no arm for.
OtherFrame == Frame("WHISPER", "", TRUE)
\* Well-formed frames of three events of the mapping table.
JoinFrame == Frame("JOIN", "", TRUE)
HostTargetFrame == Frame("HOSTTARGET", "", TRUE)
UserNoticeFrame == Frame("USERNOTICE", "", TRUE)
\* The misspelt token the dispatcher has an arm for.
HostargetFrame == Frame("HOSTARGET", "", TRUE)

\* The message dispatched for the n-th frame (the shared handle: every
\* subscriber gets this same value).
Msg(f, n) == [seq |-> n, command |-> f.command, token |-> f.token, ok |-> f.ok]

\* -------------------------------------------------------- dispatcher ----
\* Dispatcher::dispatch, the match on the command token.
Route(command) ==
    CASE command = "001" -> "IrcReady"
      [] command = "PING" -> "Ping"
      [] command = "PONG" -> "Pong"
      [] command = "353" -> "Names"
      [] command = "366" -> "Names"
      [] command = "376" -> "Ready"
      [] command = "JOIN" -> "Join"
      [] command = "PART" -> "Part"
      [] command = "PRIVMSG" -> "Privmsg"
      [] command = "CAP" -> "Cap"
      [] command = "HOSTARGET" -> "HostTarget"
      [] command = "GLOBALUSERSTATE" -> "GlobalUserState"
      [] command = "NOTICE" -> "Notice"
      [] command = "CLEARCHAT" -> "ClearChat"
      [] command = "CLEARMSG" -> "ClearMsg"
      [] command = "RECONNECT" -> "Reconnect"
      [] command = "ROOMSTATE" -> "RoomState"
      [] command = "USERSTATE" -> "UserState"
      [] command = "MODE" -> "Mode"
      [] OTHER -> None

\* T::Parsed::parse(msg): the raw message always projects to Raw, and to
\* AllCommands (which wraps the specific variant and has Raw as its last
\* resort); any other projection succeeds when the frame carries what the
\* variant needs.
ParseOk(E, m) == E \in {"All", "Raw"} \/ m.ok

\* A sender whose send never reports failure (what C5 must tell apart).
SenderTrySendNeverFails(r, id) == TRUE

\* Sender::try_send: send() fails exactly when the receiver is gone.
SenderTrySend(r, id) == r[id] \in {"open", "ended"}

\* A retain that stops after the entry at position i (what C3 must tell
\* apart): the entries after it get nothing.
RetainSendFirstOnly(list, i, q, m) ==
    IF i > Len(list) THEN [kept |-> <<>>, q |-> q]
    ELSE [kept |-> SubSeq(list, i, Len(list)),
          q |-> [q EXCEPT ![list[i].id] = Append(@, m)]]

\* A retain whose sends put the message at the front of the channel (what
\* C4 must tell apart).
RECURSIVE RetainSendFront(_, _, _, _)
RetainSendFront(list, i, q, m) ==
    IF i > Len(list) THEN [kept |-> <<>>, q |-> q]
    ELSE LET e == list[i]
             sent == rx[e.id] \in {"open", "ended"}
             q1 == IF sent THEN [q EXCEPT ![e.id] = <<m>> \o @] ELSE q
             rest == RetainSendFront(list, i + 1, q1, m)
         IN  [kept |-> IF sent THEN <<e>> \o rest.kept ELSE rest.kept,
              q |-> rest.q]

\* senders.retain(|(_, sender)| sender.try_send(msg)) from position i on:
\* the kept entries and the channels after the sends.
RECURSIVE RetainSend(_, _, _, _)
RetainSend(list, i, q, m) ==
    IF i > Len(list) THEN [kept |-> <<>>, q |-> q]
    ELSE LET e == list[i]
             sent == SenderTrySend(rx, e.id)
             q1 == IF sent THEN [q EXCEPT ![e.id] = Append(@, m)] ELSE q
             rest == RetainSend(list, i + 1, q1, m)
         IN  [kept |-> IF sent THEN <<e>> \o rest.kept ELSE rest.kept,
              q |-> rest.q]

\* A try_send that sends whether or not the projection succeeded (what C34
\* must tell apart).
TrySendUnparsed(d, E, m) ==
    IF d.event_map[E] = <<>> THEN d
    ELSE LET r == RetainSend(d.event_map[E], 1, d.queue, m)
         IN  [event_map |-> [d.event_map EXCEPT ![E] = r.kept], queue |-> r.q]

\* Dispatcher::try_send::<E> on the pair d = [event_map, queue].
TrySend(d, E, m) ==
    IF d.event_map[E] = <<>> THEN d
    ELSE IF ~ParseOk(E, m) THEN d
    ELSE LET r == RetainSend(d.event_map[E], 1, d.queue, m)
         IN  [event_map |-> [d.event_map EXCEPT ![E] = r.kept], queue |-> r.q]

\* A dispatch whose catch-all arm returns (what C19 must tell apart): a
\* command without an arm reaches neither All nor Raw.
DispatchKnownOnly(d, m) ==
    IF Route(m.command) = None THEN d
    ELSE TrySend(TrySend(TrySend(d, Route(m.command), m), "All", m), "Raw", m)

\* Dispatcher::dispatch: the arm of the command, then All, then Raw.
Dispatch(d, m) ==
    LET d1 == IF Route(m.command) = None THEN d
              ELSE TrySend(d, Route(m.command), m)
        d2 == TrySend(d1, "All", m)
    IN  TrySend(d2, "Raw", m)

\* list.retain(|&(private, _)| private)
RetainPrivate(list) == SelectSeq(list, LAMBDA e : e.private)

\* s.iter().filter(|&(private, _)| !private).count()
CountPublic(list) == Len(SelectSeq(list, LAMBDA e : ~e.private))

RECURSIVE SumOver(_, _)
SumOver(S, f) ==
    IF S = {} THEN 0
    ELSE LET x == CHOOSE y \in S : TRUE IN f[x] + SumOver(S \ {x}, f)

\* Dispatcher::count_subscribers::<E> and count_subscribers_all.
CountSubscribers(E) == CountPublic(event_map[E])
CountAll(map) == SumOver(Events, [E \in Events |-> CountPublic(map[E])])
CountSubscribersAll == CountAll(event_map)

\* The ids whose sender is in a registry.
RegIds(map) == UNION {{map[E][i].id : i \in 1..Len(map[E])} : E \in Events}
Registered(id) == \E E \in Events : \E i \in 1..Len(event_map[E]) : event_map[E][i].id = id

\* Bookkeeping of when a sender left the registry.
EndAt(map, n) ==
    LET gone == RegIds(event_map) \ RegIds(map)
    IN  [id \in Ids |-> IF id \in gone THEN n ELSE end_at[id]]

\* Bookkeeping of the subscriptions a clear of the events EV is called on:
\* the non-private entries of their lists.
Cleared(EV, op) ==
    LET hit == {id \in Ids : \E E \in EV : \E i \in 1..Len(event_map[E]) :
                    event_map[E][i].id = id /\ ~event_map[E][i].private}
    IN  [id \in Ids |-> IF id \in hit THEN [at |-> Len(log), by |-> op]
                        ELSE cleared[id]]

\* Dispatcher::subscribe_internal: a new channel, its sender pushed on the
\* list of E.
SubscribeInternal(map, E, private, id) ==
    [map EXCEPT ![E] = Append(@, [private |-> private, id |-> id])]

\* A clear that empties every list, private entries included (what C6 must
\* tell apart).
ClearAllMapReset(map) == [E \in Events |-> <<>>]

\* A clear that removes nothing (what C7 must tell apart).
ClearMapKeep(map, E) == map

\* clear_subscriptions_all: every list keeps its private entries only.
ClearAllMap(map) == [E \in Events |-> RetainPrivate(map[E])]

\* A clear of E that also empties the lists of the other events of their
\* non-private entries (what C33 must tell apart).
ClearMapEveryList(map, E) == [F \in Events |-> RetainPrivate(map[F])]

\* clear_subscriptions::<E>: the list of E keeps its private entries only.
ClearMap(map, E) == [map EXCEPT ![E] = RetainPrivate(@)]

\* ------------------------------------------------------------- state ----
NoResult == [err |-> FALSE, val |-> <<>>]
Ok(m) == [err |-> FALSE, val |-> <<m>>]
ClientDisconnected == [err |-> TRUE, val |-> <<>>]

InitSys ==
    /\ event_map = [E \in Events |-> <<>>]
    /\ cached = [E \in Events |-> <<>>]
    /\ queue = [id \in Ids |-> <<>>]
    /\ rx = [id \in Ids |-> "none"]
    /\ sevent = [s \in Streams |-> None]
    /\ yielded = [s \in Streams |-> <<>>]
    /\ wpc = [w \in Waiters |-> "idle"]
    /\ wres = [w \in Waiters |-> NoResult]
    /\ wfast = [w \in Waiters |-> FALSE]
    /\ wseen = [w \in Waiters |-> {}]
    /\ returned = {}
    /\ rpc = "new"
    /\ status = None
    /\ pong_tok = ""
    /\ abort = FALSE
    /\ handles = TRUE
    /\ out_chan = <<>>
    /\ written = <<>>
    /\ nwrites = 0
    /\ log = <<>>
    /\ sub_at = [id \in Ids |-> 0]
    /\ end_at = [id \in Ids |-> 0]
    /\ cleared = [id \in Ids |-> [at |-> -1, by |-> None]]

\* Client::new: no filter, nothing written.
InitClient ==
    /\ filters = <<>>
    /\ tokgen = 0
    /\ wire = <<>>
    /\ invoked = <<>>
    /\ offed = {}
    /\ registered = <<>>

\* The rate limiter of a new Runner: a full bucket.
Capacity == 2
Period == 2
RefillAmount == Capacity

InitRate ==
    /\ now = 0
    /\ tokens = Capacity
    /\ last_refill = 0
    /\ wakers = <<>>
    /\ took = <<>>

\* EventMap::default: no handler, the first Id is 0.
NgTypes == {"Cap", "IrcReady", "IrcMessage", "AllCommands"}
MaxHandlers == 3
HandlerIds == 0..(MaxHandlers - 1)

InitNg ==
    /\ emap = [inner |-> [T \in NgTypes |-> <<>>], id |-> 0]
    /\ recv = [h \in HandlerIds |-> [state |-> "none", got |-> <<>>]]

\* The clones of a Client: none is writing, nothing was written.
ClientClones == {"a", "b"}
Idle == [line |-> <<>>, step |-> "idle", call |-> 0]

InitConc ==
    /\ cpc = [c \in ClientClones |-> Idle]
    /\ shared = [bytes |-> <<>>, flushed |-> 0, calls |-> <<>>]

\* No library function is under check while the runner and its users run.
InitLib ==
    /\ input = <<>>
    /\ result = <<>>
    /\ InitClient
    /\ InitRate
    /\ InitNg
    /\ InitConc

Init == InitSys /\ InitLib

\* ------------------------------------------------- user: subscriptions ----
\* Dispatcher::subscribe::<E>, the stream kept by user task s.  The tasks
\* are interchangeable: s1 names the one that subscribes first.
Subscribe(s, E) ==
    /\ rx[s] = "none"
    /\ s = "s1" \/ rx["s1"] # "none"
    /\ event_map' = SubscribeInternal(event_map, E, FALSE, s)
    /\ rx' = [rx EXCEPT ![s] = "open"]
    /\ sevent' = [sevent EXCEPT ![s] = E]
    /\ sub_at' = [sub_at EXCEPT ![s] = Len(log)]
    /\ UNCHANGED <<cached, queue, yielded, wait_vars, run_vars, ctl_vars, lib_vars,
                   out_vars, log, end_at, cleared>>

\* EventStream::next: the oldest queued message, or end-of-stream once the
\* queue is empty and the sender is gone; pending otherwise.
StreamNext(s) ==
    /\ rx[s] = "open"
    /\ \/ /\ queue[s] # <<>>
          /\ yielded' = [yielded EXCEPT ![s] = Append(@, Head(queue[s]))]
          /\ queue' = [queue EXCEPT ![s] = Tail(@)]
          /\ rx' = rx
       \/ /\ queue[s] = <<>>
          /\ ~Registered(s)
          /\ rx' = [rx EXCEPT ![s] = "ended"]
          /\ UNCHANGED <<queue, yielded>>
    /\ UNCHANGED <<event_map, cached, sevent, wait_vars, run_vars, ctl_vars, lib_vars,
                   out_vars, log, ghost_vars>>

\* The user drops the stream: the receiver closes, what it held is freed.
DropStream(s) ==
    /\ rx[s] \in {"open", "ended"}
    /\ rx' = [rx EXCEPT ![s] = "dropped"]
    /\ queue' = [queue EXCEPT ![s] = <<>>]
    /\ UNCHANGED <<event_map, cached, stream_vars, wait_vars, run_vars, ctl_vars, lib_vars,
                   out_vars, log, ghost_vars>>

\* Dispatcher::clear_subscriptions::<E>
ClearSubscriptions(E) ==
    /\ event_map' = ClearMap(event_map, E)
    /\ end_at' = EndAt(ClearMap(event_map, E), Len(log))
    /\ cleared' = Cleared({E}, "clear")
    /\ UNCHANGED <<cached, queue, rx, stream_vars, wait_vars, run_vars, ctl_vars, lib_vars,
                   out_vars, log, sub_at>>

\* Dispatcher::clear_subscriptions_all
ClearSubscriptionsAll ==
    /\ event_map' = ClearAllMap(event_map)
    /\ end_at' = EndAt(ClearAllMap(event_map), Len(log))
    /\ cleared' = Cleared(Events, "clear_all")
    /\ UNCHANGED <<cached, queue, rx, stream_vars, wait_vars, run_vars, ctl_vars, lib_vars,
                   out_vars, log, sub_at>>

\* ------------------------------------------------------ user: wait_for ----
\* The event the callers wait for (IrcReady in the tests).
WaitEvent == "IrcReady"

\* What wait_for stores in the cache once its item arrived.
CacheInsert(c, E, item) == [c EXCEPT ![E] = <<item>>]

\* Dispatcher::wait_for up to its await: the cached value if there is one,
\* a fresh non-private subscription otherwise.
WaitForCall(w) ==
    /\ wpc[w] # "pending"
    /\ wseen' = [wseen EXCEPT ![w] = returned]
    /\ \/ /\ cached[WaitEvent] # <<>>
          /\ wpc' = [wpc EXCEPT ![w] = "done"]
          /\ wres' = [wres EXCEPT ![w] = Ok(cached[WaitEvent][1])]
          /\ wfast' = [wfast EXCEPT ![w] = TRUE]
          /\ returned' = returned \cup {cached[WaitEvent][1]}
          /\ UNCHANGED <<event_map, rx, sub_at>>
       \/ /\ cached[WaitEvent] = <<>>
          /\ ~Registered(w)
          /\ event_map' = SubscribeInternal(event_map, WaitEvent, FALSE, w)
          /\ rx' = [rx EXCEPT ![w] = "open"]
          /\ sub_at' = [sub_at EXCEPT ![w] = Len(log)]
          /\ wpc' = [wpc EXCEPT ![w] = "pending"]
          /\ wres' = [wres EXCEPT ![w] = NoResult]
          /\ wfast' = [wfast EXCEPT ![w] = FALSE]
          /\ UNCHANGED returned
    /\ UNCHANGED <<cached, queue, stream_vars, run_vars, ctl_vars, lib_vars, out_vars, log,
                   end_at, cleared>>

\* wait_for whose await takes the end of the stream although its channel
\* still holds a message (what C37 must tell apart).
WaitForResumeEndFirst(w) ==
    /\ wpc[w] = "pending"
    /\ \/ /\ queue[w] # <<>>
          /\ Registered(w)
          /\ cached' = CacheInsert(cached, WaitEvent, Head(queue[w]))
          /\ wres' = [wres EXCEPT ![w] = Ok(Head(queue[w]))]
          /\ returned' = returned \cup {Head(queue[w])}
       \/ /\ ~Registered(w)
          /\ wres' = [wres EXCEPT ![w] = ClientDisconnected]
          /\ UNCHANGED <<cached, returned>>
    /\ wpc' = [wpc EXCEPT ![w] = "done"]
    /\ rx' = [rx EXCEPT ![w] = "dropped"]
    /\ queue' = [queue EXCEPT ![w] = <<>>]
    /\ UNCHANGED <<event_map, stream_vars, wfast, wseen, run_vars, ctl_vars, lib_vars,
                   out_vars, log, ghost_vars>>

\* Dispatcher::wait_for after its await: the item is cached and returned, or
\* the stream ended and the call fails; the temporary stream is dropped.
WaitForResume(w) ==
    /\ wpc[w] = "pending"
    /\ \/ /\ queue[w] # <<>>
          /\ cached' = CacheInsert(cached, WaitEvent, Head(queue[w]))
          /\ wres' = [wres EXCEPT ![w] = Ok(Head(queue[w]))]
          /\ returned' = returned \cup {Head(queue[w])}
       \/ /\ queue[w] = <<>>
          /\ ~Registered(w)
          /\ wres' = [wres EXCEPT ![w] = ClientDisconnected]
          /\ UNCHANGED <<cached, returned>>
    /\ wpc' = [wpc EXCEPT ![w] = "done"]
    /\ rx' = [rx EXCEPT ![w] = "dropped"]
    /\ queue' = [queue EXCEPT ![w] = <<>>]
    /\ UNCHANGED <<event_map, stream_vars, wfast, wseen, run_vars, ctl_vars, lib_vars,
                   out_vars, log, ghost_vars>>

\* ------------------------------------------------------------ runner ----
\* commands::pong(token) encoded: the line the runner's writer enqueues.
PongLine(tok) == "PONG :" \o tok \o "\r\n"

\* The k-th chunk a user's writer enqueues.
Digits == <<"1", "2", "3", "4", "5", "6", "7", "8", "9">>
UserChunk(k) == "PRIVMSG #c :" \o Digits[k] \o "\r\n"

\* The bounded channel of Runner::new has room for one more chunk.
HasRoom(ch) == Len(ch) < ChannelCap

\* What run() leaves behind when it returns: the runner's values are
\* dropped, the auto-PONG stream and the outbound receiver with them.
RunnerReturn(st) ==
    /\ rpc' = "done"
    /\ status' = st
    /\ pong_tok' = ""
    /\ rx' = [rx EXCEPT ![PingId] = "dropped"]
    /\ out_chan' = <<>>

\* The states of rpc in which run() awaits select!: every branch polled, or
\* the read branch disabled for this turn (its pattern Ok(n) did not match)
\* and the other branches still polled.
Selecting == {"select", "select_noread"}

\* run(), before the loop: the private subscription to Ping.
RunStart ==
    /\ rpc = "new"
    /\ event_map' = SubscribeInternal(event_map, "Ping", TRUE, PingId)
    /\ rx' = [rx EXCEPT ![PingId] = "open"]
    /\ sub_at' = [sub_at EXCEPT ![PingId] = Len(log)]
    /\ rpc' = "select"
    /\ UNCHANGED <<cached, queue, stream_vars, wait_vars, status, pong_tok,
                   ctl_vars, lib_vars, out_vars, log, end_at, cleared>>

\* select!, the abort branch: clear every subscription, return Canceled.
RunnerAbort ==
    /\ rpc \in Selecting
    /\ abort
    /\ event_map' = ClearAllMap(event_map)
    /\ end_at' = EndAt(ClearAllMap(event_map), Len(log))
    /\ cleared' = Cleared(Events, "stop")
    /\ RunnerReturn("Canceled")
    /\ queue' = [queue EXCEPT ![PingId] = <<>>]
    /\ UNCHANGED <<cached, stream_vars, wait_vars, ctl_vars, lib_vars, written, nwrites,
                   log, sub_at>>

\* select!, the auto-ping branch up to the await in Writer::pong.
RunnerPing ==
    /\ rpc \in Selecting
    /\ queue[PingId] # <<>>
    /\ pong_tok' = Head(queue[PingId]).token
    /\ queue' = [queue EXCEPT ![PingId] = Tail(@)]
    /\ rpc' = "pong"
    /\ UNCHANGED <<event_map, cached, rx, stream_vars, wait_vars, status, ctl_vars, lib_vars,
                   out_vars, log, ghost_vars>>

\* Writer::pong completes: the encoded line is sent on the outbound channel
\* once the channel has room; the select loop goes on.
RunnerPongSend ==
    /\ rpc = "pong"
    /\ HasRoom(out_chan)
    /\ out_chan' = Append(out_chan, PongLine(pong_tok))
    /\ pong_tok' = ""
    /\ rpc' = "select"
    /\ UNCHANGED <<disp_vars, stream_vars, wait_vars, status, ctl_vars, lib_vars, written,
                   nwrites, log, ghost_vars>>

\* select!, the read branch on a line that decodes to frame f: dispatch it.
RunnerRead(f) ==
    /\ rpc = "select"
    /\ Len(log) < MaxFrames
    /\ LET m == Msg(f, Len(log) + 1)
           d == Dispatch([event_map |-> event_map, queue |-> queue], m)
       IN  /\ event_map' = d.event_map
           /\ queue' = d.queue
           /\ log' = Append(log, m)
           /\ end_at' = EndAt(d.event_map, Len(log) + 1)
    /\ UNCHANGED <<cached, rx, stream_vars, wait_vars, run_vars, ctl_vars, lib_vars,
                   out_vars, sub_at, cleared>>

\* A read branch that reports end of input as an I/O error (what C17 must
\* tell apart).
RunnerReadEofAsError ==
    /\ rpc = "select"
    /\ RunnerReturn("IoError")
    /\ queue' = [queue EXCEPT ![PingId] = <<>>]
    /\ UNCHANGED <<event_map, cached, stream_vars, wait_vars, ctl_vars, lib_vars, written,
                   nwrites, log, ghost_vars>>

\* select!, the read branch on end of input (n == 0): return Eof.
RunnerReadEof ==
    /\ rpc = "select"
    /\ RunnerReturn("Eof")
    /\ queue' = [queue EXCEPT ![PingId] = <<>>]
    /\ UNCHANGED <<event_map, cached, stream_vars, wait_vars, ctl_vars, lib_vars, written,
                   nwrites, log, ghost_vars>>

\* select!, the read branch on a line that does not decode: `msg?` returns
\* the error.
RunnerDecodeErr ==
    /\ rpc = "select"
    /\ RunnerReturn("DecodeError")
    /\ queue' = [queue EXCEPT ![PingId] = <<>>]
    /\ UNCHANGED <<event_map, cached, stream_vars, wait_vars, ctl_vars, lib_vars, written,
                   nwrites, log, ghost_vars>>

\* select!, the read branch when read_line fails: the pattern `Ok(n)` does
\* not match, so the branch is disabled and select! goes on awaiting the
\* other branches; the error value is dropped.
RunnerReadErr ==
    /\ rpc = "select"
    /\ rpc' = "select_noread"
    /\ UNCHANGED <<disp_vars, stream_vars, wait_vars, status, pong_tok, ctl_vars, lib_vars,
                   out_vars, log, ghost_vars>>

\* A write branch that takes the newest chunk of the channel instead of the
\* oldest (what C29 must tell apart).
RunnerWriteNewest ==
    /\ rpc \in Selecting
    /\ out_chan # <<>>
    /\ written' = Append(written, out_chan[Len(out_chan)])
    /\ out_chan' = SubSeq(out_chan, 1, Len(out_chan) - 1)
    /\ rpc' = "select"
    /\ UNCHANGED <<disp_vars, stream_vars, wait_vars, status, pong_tok, ctl_vars, lib_vars,
                   nwrites, log, ghost_vars>>

\* select!, the write branch: the next chunk is written and flushed.
RunnerWrite ==
    /\ rpc \in Selecting
    /\ out_chan # <<>>
    /\ written' = Append(written, Head(out_chan))
    /\ out_chan' = Tail(out_chan)
    /\ rpc' = "select"
    /\ UNCHANGED <<disp_vars, stream_vars, wait_vars, status, pong_tok, ctl_vars, lib_vars,
                   nwrites, log, ghost_vars>>

\* A write branch that drops the chunk whose write failed and stays in the
\* loop (what C16 must tell apart).
RunnerWriteErrSkips ==
    /\ rpc \in Selecting
    /\ out_chan # <<>>
    /\ out_chan' = Tail(out_chan)
    /\ rpc' = "select"
    /\ UNCHANGED <<disp_vars, stream_vars, wait_vars, status, pong_tok, ctl_vars, lib_vars,
                   written, nwrites, log, ghost_vars>>

\* select!, the write branch when write_all or flush fails: `?` returns the
\* error.
RunnerWriteErr ==
    /\ rpc \in Selecting
    /\ out_chan # <<>>
    /\ RunnerReturn("IoError")
    /\ queue' = [queue EXCEPT ![PingId] = <<>>]
    /\ UNCHANGED <<event_map, cached, stream_vars, wait_vars, ctl_vars, lib_vars, written,
                   nwrites, log, ghost_vars>>

\* ----------------------------------------------------- user: control ----
\* Control::stop
Stop ==
    /\ handles
    /\ abort' = TRUE
    /\ UNCHANGED <<disp_vars, stream_vars, wait_vars, run_vars, handles,
                   lib_vars, out_vars, log, ghost_vars>>

\* A drop of the last Control that the runner takes for a stop (what C18
\* must tell apart).
DropHandlesCancels ==
    /\ handles
    /\ handles' = FALSE
    /\ abort' = TRUE
    /\ UNCHANGED <<disp_vars, stream_vars, wait_vars, run_vars, out_vars, log,
                   lib_vars, ghost_vars>>

\* The user drops the Control and every Writer clone it handed out. The
\* runner keeps its own Writer (`out`) and its own Abort, so the outbound
\* channel stays open and nothing of the runner changes.
DropHandles ==
    /\ handles
    /\ handles' = FALSE
    /\ UNCHANGED <<disp_vars, stream_vars, wait_vars, run_vars, abort, out_vars,
                   lib_vars, log, ghost_vars>>

\* A user's Writer enqueues a chunk: the send completes once the channel
\* has room.
WriterSend ==
    /\ handles
    /\ rpc # "done"
    /\ nwrites < MaxWrites
    /\ HasRoom(out_chan)
    /\ out_chan' = Append(out_chan, UserChunk(nwrites + 1))
    /\ nwrites' = nwrites + 1
    /\ UNCHANGED <<disp_vars, stream_vars, wait_vars, run_vars, ctl_vars, lib_vars, written,
                   log, ghost_vars>>

\* ------------------------------------------------------ specifications ----
SubEvents == {"Privmsg", "Ping", "Raw"}
AllFrames == PingFrames \cup {ReadyFrame, PrivmsgFrame, BadPrivmsgFrame, OtherFrame}

\* The runner without its outbound side: start, stop, read.
RunnerCore(F) ==
    \/ RunStart
    \/ RunnerAbort
    \/ \E f \in F : RunnerRead(f)
    \/ RunnerReadEof
    \/ RunnerDecodeErr

\* The runner's outbound side: auto-PONG and the write branch.
RunnerOut ==
    \/ RunnerPing
    \/ RunnerPongSend
    \/ RunnerWrite
    \/ RunnerWriteErr

StreamsNext(S, EV) ==
    \/ \E s \in S, E \in EV : Subscribe(s, E)
    \/ \E s \in S : StreamNext(s)
    \/ \E s \in S : DropStream(s)

ClearNext(EV) ==
    \/ \E E \in EV : ClearSubscriptions(E)
    \/ ClearSubscriptionsAll

WaitNext ==
    \/ \E w \in Waiters : WaitForCall(w)
    \/ \E w \in Waiters : WaitForResume(w)

\* The whole system.
Next ==
    \/ RunnerCore(AllFrames)
    \/ RunnerOut
    \/ StreamsNext(Streams, SubEvents)
    \/ ClearNext(SubEvents)
    \/ WaitNext
    \/ Stop
    \/ WriterSend

Spec == Init /\ [][Next]_vars

\* The system restricted to wait_for callers: the socket delivers IrcReady
\* frames only, nobody subscribes a stream or writes.
NextWait ==
    \/ RunnerCore({ReadyFrame})
    \/ WaitNext
    \/ ClearSubscriptionsAll
    \/ Stop

SpecWait == Init /\ [][NextWait]_vars

\* The system restricted to subscriber streams: the socket delivers PRIVMSG
\* frames and then ends (so the auto-PONG branch never runs), nobody writes
\* and nobody stops the runner.
NextSub ==
    \/ RunStart
    \/ \E f \in {PrivmsgFrame, BadPrivmsgFrame} : RunnerRead(f)
    \/ RunnerReadEof
    \/ StreamsNext(Streams, {"Privmsg", "Raw"})
    \/ ClearNext({"Privmsg"})

SpecSub == Init /\ [][NextSub]_vars

\* The system restricted to clears next to the runner's private
\* subscription: the socket delivers PING frames and then ends, users
\* subscribe to Ping and clear; the runner's outbound side is left out, so
\* its private channel keeps what it was sent.
NextClear ==
    \/ RunStart
    \/ \E f \in PingFrames : RunnerRead(f)
    \/ RunnerReadEof
    \/ StreamsNext(Streams, {"Ping"})
    \/ ClearNext({"Ping"})

SpecClear == Init /\ [][NextClear]_vars

\* SpecClear with consumers that keep polling their streams.
FairClear == SpecClear /\ \A s \in Streams : WF_vars(StreamNext(s))

\* The system restricted to the ways run() returns, with user streams
\* outstanding: end of input, a frame that does not decode, Control::stop.
NextShutdown ==
    \/ RunnerCore({PrivmsgFrame})
    \/ StreamsNext(Streams, {"Privmsg"})
    \/ Stop

SpecShutdown == Init /\ [][NextShutdown]_vars

\* The system restricted to the auto-PONG path: the socket delivers PING
\* frames only, one user stream listens to Ping, a user's writer competes
\* for the outbound channel.
NextPong ==
    \/ RunnerCore(PingFrames)
    \/ RunnerOut
    \/ StreamsNext({"s1"}, {"Ping"})
    \/ ClearNext({"Ping"})
    \/ Stop
    \/ WriterSend

SpecPong == Init /\ [][NextPong]_vars

\* SpecPong with a select loop that runs a branch that stays ready: the
\* auto-ping branch, the send Writer::pong awaits, the write branch.
FairPong ==
    /\ SpecPong
    /\ WF_vars(RunnerPing)
    /\ WF_vars(RunnerPongSend)
    /\ WF_vars(RunnerWrite)

\* The system restricted to a connection that stays open and healthy (no
\* end of input, no error): the socket delivers PING frames, a user's
\* writer competes for the outbound channel, the user calls stop.
NextStop ==
    \/ RunStart
    \/ RunnerAbort
    \/ \E f \in PingFrames : RunnerRead(f)
    \/ RunnerPing
    \/ RunnerPongSend
    \/ RunnerWrite
    \/ Stop
    \/ WriterSend

SpecStop == Init /\ [][NextStop]_vars

\* SpecStop with a select loop that runs a branch that stays ready.
FairStop ==
    /\ SpecStop
    /\ WF_vars(RunnerAbort)
    /\ WF_vars(RunnerPing)
    /\ WF_vars(RunnerPongSend)
    /\ WF_vars(RunnerWrite)

\* The system restricted to the socket's outcomes: reads that deliver a
\* PING, end the input or fail, writes that succeed or fail; a user's
\* writer enqueues chunks, and the user may drop its handles.
NextIo ==
    \/ RunStart
    \/ \E f \in PingFrames : RunnerRead(f)
    \/ RunnerReadEof
    \/ RunnerReadErr
    \/ RunnerOut
    \/ WriterSend
    \/ DropHandles

SpecIo == Init /\ [][NextIo]_vars

\* The system restricted to the catch-all events: the socket delivers
\* PRIVMSG frames, well-formed or not, and frames of a command without an
\* arm; users subscribe to Privmsg, All and Raw.
NextAll ==
    \/ RunStart
    \/ \E f \in {PrivmsgFrame, BadPrivmsgFrame, OtherFrame} : RunnerRead(f)
    \/ StreamsNext(Streams, {"Privmsg", "All", "Raw"})

SpecAll == Init /\ [][NextAll]_vars

\* The system restricted to events of the mapping table: the socket
\* delivers well-formed JOIN, HOSTTARGET, USERNOTICE and HOSTARGET frames; users
\* subscribe to Join, HostTarget and UserNotice.
NextTable ==
    \/ RunStart
    \/ \E f \in {JoinFrame, HostTargetFrame, UserNoticeFrame, HostargetFrame} :
           RunnerRead(f)
    \/ StreamsNext(Streams, {"Join", "HostTarget", "UserNotice"})

SpecTable == Init /\ [][NextTable]_vars

\* -------------------------------------------------------------- text ----
\* A string is a sequence of symbols: a space, a punctuation mark, or a
\* word (a run of characters holding neither).  Indices are 0-based as in
\* the source; an Option is <<>> (None) or <<v>> (Some(v)).
SP == " "
NotFound == -1

Min(S) == CHOOSE x \in S : \A y \in S : x <= y
Max(S) == CHOOSE x \in S : \A y \in S : x >= y

\* &s[..n] and &s[n..]
Take(s, n) == SubSeq(s, 1, n)
Drop(s, n) == SubSeq(s, n + 1, Len(s))

\* str::find with a pattern of one or more symbols.
FindStr(s, pat) ==
    LET at == {i \in 0..(Len(s) - Len(pat)) :
                  SubSeq(s, i + 1, i + Len(pat)) = pat}
    IN  IF at = {} THEN NotFound ELSE Min(at)

Find(s, c) == FindStr(s, <<c>>)

\* str::trim and str::trim_end
White == {SP, "\r", "\n"}
Trim(s) ==
    LET keep == {i \in 1..Len(s) : s[i] \notin White}
    IN  IF keep = {} THEN <<>> ELSE SubSeq(s, Min(keep), Max(keep))
TrimEnd(s) ==
    LET keep == {i \in 1..Len(s) : s[i] \notin White}
    IN  IF keep = {} THEN <<>> ELSE Take(s, Max(keep))

\* str::split: the pieces between the occurrences of the pattern.
RECURSIVE SplitStr(_, _)
SplitStr(s, pat) ==
    LET i == FindStr(s, pat)
    IN  IF i = NotFound THEN <<s>>
        ELSE <<Take(s, i)>> \o SplitStr(Drop(s, i + Len(pat)), pat)

\* str::split_terminator: as split, without a trailing empty piece.
SplitTerminator(s, pat) ==
    LET pieces == SplitStr(s, pat)
    IN  IF pieces[Len(pieces)] = <<>> THEN Take(pieces, Len(pieces) - 1)
        ELSE pieces

Reverse(q) == [i \in 1..Len(q) |-> q[Len(q) + 1 - i]]

\* ------------------------------------------------------------- irc/tags ----
\* The (key, value) pairs of the segments that hold a '=': filter_map's
\* `p.find('=')?` drops a segment without one.
TagPairs(s) ==
    LET segs == SplitTerminator(Drop(s, 1), <<";">>)
        kept == SelectSeq(segs, LAMBDA p : Find(p, "=") # NotFound)
    IN  [i \in 1..Len(kept) |->
            [key |-> Take(kept[i], Find(kept[i], "=")),
             val |-> Drop(kept[i], Find(kept[i], "=") + 1)]]

\* Tags::parse: the pairs collected into a HashMap, a later pair replacing
\* an earlier one with the same key.
TagsParse(s) ==
    LET pairs == TagPairs(s)
        keys == {pairs[i].key : i \in 1..Len(pairs)}
    IN  [k \in keys |->
            pairs[Max({i \in 1..Len(pairs) : pairs[i].key = k})].val]

\* Tags::default
NoTags == [k \in {} |-> <<>>]

\* ---------------------------------------------------------- irc/message ----
\* What a call of Parts::new or Message::parse comes to: a value, or a
\* panic with its message.
Panic(why) == [kind |-> "Panic", why |-> why]
NoMessage == [kind |-> "None"]
IsPanic(r) == r.kind = "Panic"

\* Parts::new
PartsNew(inp) ==
    LET iter == SplitTerminator(inp, <<SP, ":">>)
        index == FindStr(inp, <<SP, ":">>)
        tail == IF index = NotFound \/ Drop(inp, index + 2) = <<>> THEN <<>>
                ELSE <<Drop(inp, index + 2)>>
    IN  IF iter = <<>> THEN Panic("iter to exist on parts")
        ELSE LET words == SplitTerminator(iter[1], <<SP>>)
             IN  IF words = <<>> THEN Panic("head to exist on parts")
                 ELSE [kind |-> "Parts", head |-> words[1],
                       args |-> Reverse(Tail(words)), tail |-> tail]

\* The match on parts.head of Message::parse.
MessageOf(parts, prefix, tags) ==
    CASE parts.head = <<"PING">> ->
            IF parts.tail = <<>> THEN NoMessage
            ELSE [kind |-> "Ping", token |-> parts.tail[1]]
      [] parts.head = <<"CAP">> ->
            IF parts.tail = <<>> THEN Panic("tail to exist on cap message")
            ELSE [kind |-> "Cap",
                  acknowledge |-> parts.args # <<>>
                                  /\ parts.args[1] = <<"ACK">>,
                  cap |-> parts.tail[1]]
      [] parts.head = <<"001">> ->
            IF parts.args = <<>> THEN NoMessage
            ELSE [kind |-> "Connected", name |-> parts.args[Len(parts.args)]]
      [] parts.head = <<"376">> ->
            IF parts.args = <<>> THEN NoMessage
            ELSE [kind |-> "Ready", name |-> parts.args[Len(parts.args)]]
      [] OTHER ->
            [kind |-> "Unknown", prefix |-> prefix, tags |-> tags,
             head |-> parts.head, args |-> Reverse(parts.args),
             tail |-> parts.tail]

\* Message::parse
MessageParse(line) ==
    LET inp == Trim(line)
        tagged == inp # <<>> /\ inp[1] = "@"
        pos == Find(inp, SP)
        tags == IF tagged /\ pos # NotFound THEN TagsParse(Take(inp, pos))
                ELSE NoTags
        in1 == IF tagged /\ pos # NotFound THEN Drop(inp, pos + 1) ELSE inp
        prefixed == in1 # <<>> /\ in1[1] = ":"
        p == Find(in1, SP)
        prefix == IF prefixed /\ p # NotFound THEN <<SubSeq(in1, 2, p)>>
                  ELSE <<>>
        in2 == IF prefixed /\ p # NotFound THEN Drop(in1, p + 1) ELSE in1
        parts == PartsNew(in2)
    IN  IF inp = <<>> THEN NoMessage
        ELSE IF tagged /\ pos = NotFound THEN NoMessage
        ELSE IF prefixed /\ p = NotFound THEN NoMessage
        ELSE IF IsPanic(parts) THEN parts
        ELSE MessageOf(parts, prefix, tags)

\* The lines handed to Message::parse: up to MaxLine symbols.
LineSyms == {SP, ":", "@", "PING", "CAP", "001", "x"}
Strings(A, n) == UNION {[1..k -> A] : k \in 0..n}
Lines == Strings(LineSyms, MaxLine)

\* The caller of Message::parse: one line, one call.
InitParse ==
    /\ InitSys
    /\ InitClient
    /\ InitRate
    /\ InitNg
    /\ InitConc
    /\ input \in Lines
    /\ result = <<>>

MessageParseCall ==
    /\ result = <<>>
    /\ result' = <<MessageParse(input)>>
    /\ UNCHANGED <<input, client_vars, rate_vars, sys_vars, ng_vars,
                   conc_vars>>

NextParse == MessageParseCall

SpecParse == InitParse /\ [][NextParse]_vars

\* The tag blocks handed to Tags::parse: '@', then up to MaxLine symbols.
TagSyms == {";", "=", "k", "j", "v"}
TagBlocks == {<<"@">> \o s : s \in Strings(TagSyms, MaxLine)}

\* The caller of Tags::parse: one tag block, one call.
InitTags ==
    /\ InitSys
    /\ InitClient
    /\ InitRate
    /\ InitNg
    /\ InitConc
    /\ input \in TagBlocks
    /\ result = <<>>

TagsParseCall ==
    /\ result = <<>>
    /\ result' = <<TagsParse(input)>>
    /\ UNCHANGED <<input, client_vars, rate_vars, sys_vars, ng_vars,
                   conc_vars>>

NextTags == TagsParseCall

SpecTags == InitTags /\ [][NextTags]_vars

\* ---------------------------------------------------------------- decode ----
CRLF == <<"\r", "\n">>

\* decode::Message::parse of one frame: the raw message keeps the frame as
\* its original line; a frame without a command token is an error.
DecodeMessage(frame) ==
    IF Trim(Take(frame, Len(frame) - 2)) = <<>>
    THEN [ok |-> FALSE, err |-> "EmptyCommand"]
    ELSE [ok |-> TRUE, msg |-> [raw |-> frame]]

\* A decode_one that returns the offset past the frame even at the end of
\* the input (what C24 must tell apart).
DecodeOneNoSentinel(inp) ==
    LET pos == FindStr(inp, CRLF)
        m == DecodeMessage(Take(inp, pos + 2))
    IN  IF pos = NotFound THEN [ok |-> FALSE, err |-> "IncompleteMessage"]
        ELSE IF ~m.ok THEN m
        ELSE [ok |-> TRUE, next |-> pos + 2, msg |-> m.msg]

\* decode_one
DecodeOne(inp) ==
    LET pos == FindStr(inp, CRLF)
        next == IF pos + 2 = Len(inp) THEN 0 ELSE pos + 2
        m == DecodeMessage(Take(inp, pos + 2))
    IN  IF pos = NotFound THEN [ok |-> FALSE, err |-> "IncompleteMessage"]
        ELSE IF ~m.ok THEN m
        ELSE [ok |-> TRUE, next |-> next, msg |-> m.msg]

\* The buffers handed to decode_one: one to MaxBatch complete frames.
Bodies == {<<"a">>, <<"b">>, <<"c", "c">>}
RECURSIVE Concat(_)
Concat(q) == IF q = <<>> THEN <<>> ELSE Head(q) \o Concat(Tail(q))
Batches == UNION {[1..k -> {b \o CRLF : b \in Bodies}] : k \in 1..MaxBatch}
Buffers == {Concat(q) : q \in Batches}

InitDecode ==
    /\ InitSys
    /\ InitClient
    /\ InitRate
    /\ InitNg
    /\ InitConc
    /\ input \in Buffers
    /\ result = <<>>

\* A caller that decodes the buffer frame by frame.  It passes the whole
\* buffer first; after a call that returned a non-zero offset it passes
\* either what is left of the slice it passed last (how = "slice") or the
\* buffer from that offset (how = "index").  arg is the slice passed to
\* the last call, ret what the call returned, out the messages so far.
DecodeCall(how) ==
    LET slice == IF result = <<>> THEN input
                 ELSE IF how = "slice"
                      THEN Drop(result[1].arg, result[1].ret.next)
                      ELSE Drop(input, result[1].ret.next)
        ret == DecodeOne(slice)
        out == IF result = <<>> THEN <<>> ELSE result[1].out
    IN  /\ result # <<>> =>
            /\ result[1].how = how
            /\ result[1].ret.ok
            /\ result[1].ret.next # 0
            /\ Len(result[1].out) <= MaxBatch
        /\ result' = <<[how |-> how, arg |-> slice, ret |-> ret,
                        out |-> IF ret.ok THEN Append(out, ret.msg)
                                ELSE out]>>
        /\ UNCHANGED <<input, client_vars, rate_vars, sys_vars, ng_vars,
                   conc_vars>>

NextDecode == \E how \in {"slice", "index"} : DecodeCall(how)

SpecDecode == InitDecode /\ [][NextDecode]_vars

\* --------------------------------------------------------- twitch/client ----
ClientOk(v) == [ok |-> TRUE, val |-> v]
ClientErr(e) == [ok |-> FALSE, err |-> e]

\* Prefix::parse: a prefix that holds a '!' names a user, any other one a
\* server.
PrefixParse(text) ==
    IF Find(text, "!") = NotFound THEN [kind |-> "Server", host |-> text]
    ELSE [kind |-> "User", nick |-> Take(text, Find(text, "!"))]

\* Client::write_line: the data, then CRLF, then a flush; fail names the
\* step that fails ("none": no step does).
WriteLine(w, data, fail) ==
    CASE fail = "data" -> [wire |-> w, ok |-> FALSE]
      [] fail = "crlf" -> [wire |-> w \o data, ok |-> FALSE]
      [] fail = "flush" -> [wire |-> w \o data \o CRLF, ok |-> FALSE]
      [] OTHER -> [wire |-> w \o data \o CRLF, ok |-> TRUE]

WriteFails == {"data", "crlf", "flush"}

\* The sanity check of read_message with args.get(1) for args.get(0) (what
\* C25 must tell apart).
BadAuthSecondArg(m) ==
    /\ m.kind = "Unknown"
    /\ m.prefix # <<>> /\ PrefixParse(m.prefix[1]).kind = "Server"
    /\ m.tail # <<>>
    /\ m.head = <<"NOTICE">>
    /\ PrefixParse(m.prefix[1]).host = <<"tmi.trovo.tv">>
    /\ m.tail[1] = <<"Improperly", SP, "formatted", SP, "auth">>
    /\ Len(m.args) >= 2 /\ m.args[2] = <<"*">>

\* The sanity check of read_message: the server's notice of a bad
\* registration.
BadAuth(m) ==
    /\ m.kind = "Unknown"
    /\ m.prefix # <<>> /\ PrefixParse(m.prefix[1]).kind = "Server"
    /\ m.tail # <<>>
    /\ m.head = <<"NOTICE">>
    /\ PrefixParse(m.prefix[1]).host = <<"tmi.trovo.tv">>
    /\ m.tail[1] = <<"Improperly", SP, "formatted", SP, "auth">>
    /\ m.args # <<>> /\ m.args[1] = <<"*">>

\* commands::parse(&msg).unwrap_or_else(|| Message::Irc(msg)) and
\* Message::what_filter: the variant of a message is the key of its filters.
WhatFilter(m) ==
    IF m.kind # "Unknown" THEN "Irc"
    ELSE CASE m.head = <<"PRIVMSG">> -> "PrivMsg"
           [] m.head = <<"JOIN">> -> "Join"
           [] m.head = <<"NOTICE">> -> "Notice"
           [] OTHER -> "Irc"

CommandOf(m) == [what |-> WhatFilter(m), irc |-> m]

\* The filters of a key, in the order filter_map.get(key) holds them.
FiltersOf(fm, key) == SelectSeq(fm, LAMBDA f : f.key = key)

\* FilterMap::insert
FilterMapInsert(fm, key, tok) == Append(fm, [key |-> key, tok |-> tok])

\* A try_remove that reports the filter and leaves it in the map (what C27
\* must tell apart).
FilterMapTryRemoveKeeps(fm, tok) ==
    [map |-> fm, found |-> \E i \in 1..Len(fm) : fm[i].tok = tok]

\* FilterMap::try_remove
FilterMapTryRemove(fm, tok) ==
    [map |-> SelectSeq(fm, LAMBDA f : f.tok # tok),
     found |-> \E i \in 1..Len(fm) : fm[i].tok = tok]

\* The lines the server sends.
PrivmsgLine ==
    <<":", "museun", "!", "~user@localhost", SP, "PRIVMSG", SP, "#museun",
      SP, ":", "test">> \o CRLF
NoticeLine ==
    <<":", "tmi.trovo.tv", SP, "NOTICE", SP, "#museun", SP, ":", "slow">>
        \o CRLF
BadAuthLine ==
    <<":", "tmi.trovo.tv", SP, "NOTICE", SP, "*", SP, ":", "Improperly", SP,
      "formatted", SP, "auth">> \o CRLF
PingLine == <<"PING", SP, ":", "a">> \o CRLF
ClientLines == {PrivmsgLine, NoticeLine, BadAuthLine, PingLine, <<>>}
FilterKeys == {"PrivMsg", "Notice"}

\* Client::read_message, the socket handing it one line (the empty line:
\* the end of the stream).
ReadMessage(line, fail) ==
    LET buf == TrimEnd(line)
        m == MessageParse(buf)
        w == WriteLine(wire, <<"PONG", SP, ":">> \o m.token, fail)
        msg == CommandOf(m)
        fs == FiltersOf(filters, msg.what)
    IN  /\ Len(input) < MaxFrames
        /\ input' = Append(input, line)
        /\ IF m = NoMessage
           THEN /\ fail = "none"
                /\ result' = <<ClientErr("InvalidMessage")>>
                /\ UNCHANGED <<wire, invoked>>
           ELSE IF m.kind = "Ping" /\ ~w.ok
           THEN /\ result' = <<ClientErr("Write")>>
                /\ wire' = w.wire
                /\ UNCHANGED invoked
           ELSE /\ m.kind # "Ping" => fail = "none"
                /\ wire' = IF m.kind = "Ping" THEN w.wire ELSE wire
                /\ IF BadAuth(m)
                   THEN /\ result' = <<ClientErr("InvalidRegistration")>>
                        /\ UNCHANGED invoked
                   ELSE /\ invoked' = invoked \o
                               [i \in 1..Len(fs) |->
                                   [tok |-> fs[i].tok, msg |-> msg]]
                        /\ result' = <<ClientOk(msg)>>
        /\ UNCHANGED <<filters, tokgen, offed, registered, rate_vars, sys_vars, ng_vars,
                   conc_vars>>

\* Client::read_message when the read itself fails.
ReadMessageErr ==
    /\ Len(input) < MaxFrames
    /\ input' = Append(input, <<>>)
    /\ result' = <<ClientErr("Read")>>
    /\ UNCHANGED <<client_vars, rate_vars, sys_vars, ng_vars,
                   conc_vars>>

\* Client::on for a closure that takes the messages of `key`.
On(key) ==
    /\ tokgen < MaxFilters
    /\ filters' = FilterMapInsert(filters, key, tokgen)
    /\ tokgen' = tokgen + 1
    /\ registered' = Append(registered, [key |-> key, tok |-> tokgen])
    /\ result' = <<[fn |-> "on", tok |-> tokgen]>>
    /\ UNCHANGED <<input, wire, invoked, offed, rate_vars, sys_vars, ng_vars,
                   conc_vars>>

\* Client::off with a token that Client::on returned.
Off(tok) ==
    /\ tok < tokgen
    /\ filters' = FilterMapTryRemove(filters, tok).map
    /\ result' = <<[fn |-> "off", tok |-> tok,
                    ret |-> FilterMapTryRemove(filters, tok).found]>>
    /\ offed' = offed \cup {tok}
    /\ UNCHANGED <<input, tokgen, wire, invoked, registered, rate_vars,
                   sys_vars, ng_vars,
                   conc_vars>>

\* The socket either takes the whole PONG line or fails at its flush (the
\* other failures of write_line are those register meets).
NextClient ==
    \/ \E line \in ClientLines, fail \in {"none", "flush"} :
           ReadMessage(line, fail)
    \/ ReadMessageErr
    \/ \E key \in FilterKeys : On(key)
    \/ \E tok \in 0..(MaxFilters - 1) : Off(tok)

SpecClient == Init /\ [][NextClient]_vars

\* ------------------------------------------------------- Client::register ----
Capabilities == {"Generic", "Membership", "Commands", "Tags"}

\* Capability::get_command: <<>> (None) for Generic.
GetCommand(cap) ==
    CASE cap = "Generic" -> <<>>
      [] cap = "Membership" ->
            <<<<"CAP", SP, "REQ", SP, ":", "trovo.tv/membership">>>>
      [] cap = "Commands" ->
            <<<<"CAP", SP, "REQ", SP, ":", "trovo.tv/commands">>>>
      [] cap = "Tags" -> <<<<"CAP", SP, "REQ", SP, ":", "trovo.tv/tags">>>>

\* config.caps.into_iter().filter_map(Capability::get_command)
RECURSIVE CapCommands(_)
CapCommands(caps) ==
    IF caps = <<>> THEN <<>>
    ELSE GetCommand(Head(caps)) \o CapCommands(Tail(caps))

\* The lines register hands to write_line, in order.
RegisterLines(config) ==
    CapCommands(config.caps)
        \o <<<<"PASS", SP>> \o config.token, <<"NICK", SP>> \o config.nick>>

\* A register that goes on after a failed write and returns the outcome
\* of the last one (what C26 must tell apart).
RECURSIVE WriteLinesKeepsGoing(_, _, _, _)
WriteLinesKeepsGoing(w, lines, failAt, fail) ==
    LET r == WriteLine(w, Head(lines), IF failAt = 1 THEN fail ELSE "none")
    IN  IF Len(lines) = 1 THEN r
        ELSE WriteLinesKeepsGoing(r.wire, Tail(lines), failAt - 1, fail)

\* The write_line calls of register, each followed by `?`: the first
\* failure returns.  The failAt-th call fails at step `fail` (0: none).
RECURSIVE WriteLines(_, _, _, _)
WriteLines(w, lines, failAt, fail) ==
    LET r == WriteLine(w, Head(lines), IF failAt = 1 THEN fail ELSE "none")
    IN  IF ~r.ok \/ Len(lines) = 1 THEN r
        ELSE WriteLines(r.wire, Tail(lines), failAt - 1, fail)

\* The configurations handed to register: up to MaxCaps capabilities, in
\* any order, repeated or not.
Configs ==
    {[caps |-> c, token |-> <<"oauth:t">>, nick |-> <<"museun">>] :
        c \in Strings(Capabilities, MaxCaps)}

InitRegister ==
    /\ InitSys
    /\ InitClient
    /\ InitRate
    /\ InitNg
    /\ InitConc
    /\ input \in Configs
    /\ result = <<>>

\* Client::register
Register(failAt, fail) ==
    LET lines == RegisterLines(input)
        r == WriteLines(wire, lines, failAt, fail)
    IN  /\ result = <<>>
        /\ failAt <= Len(lines)
        /\ (failAt = 0) = (fail = "none")
        /\ wire' = r.wire
        /\ result' = <<IF r.ok THEN ClientOk(<<>>) ELSE ClientErr("Write")>>
        /\ UNCHANGED <<input, filters, tokgen, invoked, offed, registered,
                       rate_vars, sys_vars, ng_vars,
                   conc_vars>>

NextRegister ==
    \E failAt \in 0..(MaxCaps + 2), fail \in WriteFails \cup {"none"} :
        Register(failAt, fail)

SpecRegister == InitRegister /\ [][NextRegister]_vars

\* ---------------------------------------------------------- rate limiter ----
\* The writer clones that share the limiter.
Clones == {"c1", "c2"}

\* The refill on demand: the whole periods elapsed since the last refill
\* tick, each worth RefillAmount tokens, the bucket clamped to Capacity.
Refilled ==
    LET periods == (now - last_refill) \div Period
    IN  [tokens |-> Min({Capacity, tokens + periods * RefillAmount}),
         last |-> last_refill + periods * Period]

\* take(1) by writer c: after the refill it consumes a token and returns,
\* or registers its waker and suspends.
TakeToken(c) ==
    /\ \A i \in 1..Len(wakers) : wakers[i] # c
    /\ last_refill' = Refilled.last
    /\ IF wakers = <<>> /\ Refilled.tokens >= 1
       THEN /\ tokens' = Refilled.tokens - 1
            /\ took' = Append(took, now)
            /\ UNCHANGED wakers
       ELSE /\ tokens' = Refilled.tokens
            /\ wakers' = Append(wakers, c)
            /\ UNCHANGED took
    /\ UNCHANGED <<now, input, result, client_vars, sys_vars, ng_vars,
                   conc_vars>>

\* A refill tick grants a token to the oldest suspended take, which
\* completes.
Wake ==
    /\ wakers # <<>>
    /\ Refilled.tokens >= 1
    /\ last_refill' = Refilled.last
    /\ tokens' = Refilled.tokens - 1
    /\ took' = Append(took, now)
    /\ wakers' = Tail(wakers)
    /\ UNCHANGED <<now, input, result, client_vars, sys_vars, ng_vars,
                   conc_vars>>

\* Time passes.
Tick ==
    /\ now < MaxTime
    /\ now' = now + 1
    /\ UNCHANGED <<tokens, last_refill, wakers, took, input, result,
                   client_vars, sys_vars, ng_vars,
                   conc_vars>>

NextRate ==
    \/ \E c \in Clones : TakeToken(c)
    \/ Wake
    \/ Tick

SpecRate == Init /\ [][NextRate]_vars

\* ------------------------------------------------------------- claims ----

\* C1: once a wait_for call has returned v, every wait_for called later
\* returns that same v, and returns it without suspending.
C1_WaitForReturnsCached ==
    \A w \in Waiters :
        (wpc[w] = "done" /\ wseen[w] # {}) =>
            /\ ~wres[w].err
            /\ wfast[w]
            /\ \A v \in wseen[w] : wres[w].val = <<v>>

\* C2: once the cache slot of an event holds a value, no step replaces it
\* by a different value.
C2_CacheWrittenOnce ==
    [][\A E \in Events : cached[E] # <<>> => cached'[E] = cached[E]]_vars

\* The events whose subscribers a frame is due to: its own variant, then
\* the catch-all All and Raw; and those among them it projects to.
Targets(m) == ({Route(m.command)} \ {None}) \cup {"All", "Raw"}
Typed(m) == {E \in Targets(m) : ParseOk(E, m)}

\* The step dispatches a frame; the frame it dispatches.
Dispatching == Len(log') = Len(log) + 1
Dispatched == log'[Len(log')]

\* The ids registered for event E whose receiver has not been dropped.
LiveIds(E) ==
    {event_map[E][i].id : i \in {j \in 1..Len(event_map[E]) :
                                    rx[event_map[E][j].id] # "dropped"}}

IsPrefix(a, b) == Len(a) <= Len(b) /\ a = SubSeq(b, 1, Len(a))

\* C3: the dispatch of a frame hands the message exactly once to every
\* subscriber of its variant (and of All and Raw) whose receiver is live,
\* to nobody else, and all of it within the dispatch of that frame.
C3_FanOutExactlyOnce ==
    [][Dispatching =>
        LET due == UNION {LiveIds(E) : E \in Typed(Dispatched)}
        IN  \A id \in Ids :
                queue'[id] = IF id \in due THEN Append(queue[id], Dispatched)
                             ELSE queue[id]]_vars

\* C3 witness: a PRIVMSG was just dispatched to two live Privmsg
\* subscribers, and each holds exactly that one handle.
C3_Witness ==
    /\ log # <<>>
    /\ sevent["s1"] = "Privmsg" /\ sevent["s2"] = "Privmsg"
    /\ queue["s1"] = <<log[Len(log)]>>
    /\ queue["s2"] = <<log[Len(log)]>>

\* The frames stream s is due: those dispatched between its subscription
\* and the removal of its sender that project to its event.
Expected(s) ==
    LET hi == IF Registered(s) THEN Len(log) ELSE end_at[s]
    IN  SelectSeq(SubSeq(log, sub_at[s] + 1, hi),
                  LAMBDA m : sevent[s] \in Typed(m))

\* C4: what a stream has yielded, followed by what it still holds, is the
\* sequence of the frames of its variant dispatched while it was
\* subscribed, in the order they were read; a stream that ended has
\* yielded all of them, a dropped one a prefix.
C4_StreamIsDispatchOrder ==
    \A s \in Streams :
        /\ rx[s] \in {"open", "ended"} => yielded[s] \o queue[s] = Expected(s)
        /\ rx[s] = "ended" => yielded[s] = Expected(s)
        /\ rx[s] = "dropped" => IsPrefix(yielded[s], Expected(s))

\* C4 witness: a stream has yielded two frames, oldest first, and skipped
\* nothing.
C4_Witness ==
    \E s \in Streams :
        /\ Len(yielded[s]) = 2
        /\ yielded[s][1].seq = 1
        /\ yielded[s][2].seq = 2

\* A clear is being called (by the user, or by the runner on stop).
Clearing == \/ cleared' # cleared
            \/ ClearSubscriptionsAll
            \/ RunnerAbort
            \/ \E E \in Events : ClearSubscriptions(E)

\* C5: dropping a stream leaves the registry and the subscriber counts as
\* they are; a dispatch keeps, of every event it delivers to, exactly the
\* entries whose receiver is live, in order, and leaves the other events
\* alone; and no other step than a clear removes an entry.
C5_LazyPruning ==
    [][/\ (\E s \in Streams : rx[s] # "dropped" /\ rx'[s] = "dropped")
              => /\ event_map' = event_map
                 /\ \A E \in Events : CountSubscribers(E)' = CountSubscribers(E)
       /\ IF Dispatching
          THEN \A E \in Events :
                  event_map'[E] =
                      IF E \in Typed(Dispatched)
                      THEN SelectSeq(event_map[E], LAMBDA e : rx[e.id] # "dropped")
                      ELSE event_map[E]
          ELSE \/ \A E \in Events : IsPrefix(event_map[E], event_map'[E])
               \/ Clearing]_vars

\* C5 witness: s2 was dropped and a later dispatch removed it, while s1,
\* subscribed to the same event before that dispatch, is still registered
\* and holds the frame.
C5_Witness ==
    /\ rx["s2"] = "dropped" /\ ~Registered("s2")
    /\ cleared["s2"].at = -1
    /\ sevent["s1"] = sevent["s2"]
    /\ rx["s1"] = "open" /\ Registered("s1")
    /\ end_at["s2"] = Len(log)
    /\ queue["s1"] # <<>> /\ queue["s1"][Len(queue["s1"])].seq = end_at["s2"]

\* C7: once a clear was called on a user's subscription, its stream holds
\* and yields only frames dispatched before the clear, and it reaches
\* end-of-stream (unless the user drops it first).
C7_ClearedStreamEnds ==
    /\ [](\A s \in Streams : cleared[s].at >= 0 =>
            /\ \A i \in 1..Len(yielded[s]) : yielded[s][i].seq <= cleared[s].at
            /\ \A i \in 1..Len(queue[s]) : queue[s][i].seq <= cleared[s].at)
    /\ \A s \in Streams :
            (cleared[s].at >= 0) ~> (rx[s] \in {"ended", "dropped"})

\* C7 witness: a stream cleared by the user has reached end-of-stream, and
\* a frame of its variant dispatched after the clear was not given to it.
C7_Witness ==
    \E s \in Streams :
        /\ cleared[s].by \in {"clear", "clear_all"}
        /\ rx[s] = "ended"
        /\ Len(log) > cleared[s].at
        /\ sevent[s] \in Typed(log[Len(log)])
        /\ Len(yielded[s]) = 1

\* C8: the step in which run() returns, whatever the status, leaves no
\* open stream with its sender still registered: every outstanding stream
\* ends.
C8_ShutdownEndsStreams ==
    [][(rpc # "done" /\ rpc' = "done") =>
        \A s \in Streams : rx'[s] = "open" => ~Registered(s)']_vars

\* C6: the step of clear_subscriptions_all leaves count_subscribers_all at
\* 0 and every private entry where it was; the runner's private
\* subscription stays registered for as long as run() has not returned,
\* and every PING dispatched meanwhile is appended to its queue.
C6_ClearAllKeepsInternal ==
    [][/\ ClearSubscriptionsAll =>
            /\ CountAll(event_map') = 0
            /\ \A E \in Events :
                  SelectSeq(event_map'[E], LAMBDA e : e.private) =
                      SelectSeq(event_map[E], LAMBDA e : e.private)
       /\ rpc' \in {"select", "pong"} => Registered(PingId)'
       /\ (Dispatching /\ "Ping" \in Typed(Dispatched) /\ rpc # "done") =>
            queue'[PingId] = Append(queue[PingId], Dispatched)]_vars

\* C6 witness: clear_subscriptions_all removed a user's subscription, the
\* count is 0, and the runner's private subscription holds a PING that was
\* dispatched after the clear.
C6_Witness ==
    /\ cleared["s1"].by = "clear_all"
    /\ CountSubscribersAll = 0
    /\ Registered(PingId)
    /\ queue[PingId] # <<>>
    /\ queue[PingId][Len(queue[PingId])].seq > cleared["s1"].at

\* The PONG lines written to the socket so far; the PINGs among the first
\* n frames read.
Pongs == SelectSeq(written, LAMBDA l : \E tok \in Tokens : l = PongLine(tok))
PingsUpTo(n) == SelectSeq(SubSeq(log, 1, n), LAMBDA m : "Ping" \in Typed(m))

\* The n-th frame read is a PING; its PONG has been written to the socket.
PingRead(n) == Len(log) >= n /\ "Ping" \in Typed(log[n])
PongWritten(n) ==
    /\ PingRead(n)
    /\ LET k == Len(PingsUpTo(n))
       IN  Len(Pongs) >= k /\ Pongs[k] = PongLine(PingsUpTo(n)[k].token)

\* C9: every PING the runner reads leads to its PONG line being written
\* to the socket, unless run() returns first.
C9_PingAnswered ==
    \A n \in 1..MaxFrames :
        PingRead(n) ~> (rpc = "done" \/ PongWritten(n))

\* C10: a PING read after a user's clear_subscriptions_all or
\* clear_subscriptions::<Ping> removed the user's Ping subscription is
\* still handed to the runner's listener and leads to its PONG line being
\* written, unless run() returns first.
C10_PingAnsweredAfterClear ==
    \A n \in 1..MaxFrames :
        (/\ PingRead(n)
         /\ cleared["s1"].by \in {"clear", "clear_all"}
         /\ cleared["s1"].at < n)
            ~> (rpc = "done" \/ PongWritten(n))

\* C11: while run() has not returned and the outbound channel is full (so
\* that a writer, the runner's own auto-PONG send included, is waiting for
\* room), the write branch of the loop can run and drain the channel.
C11_NoOutboundDeadlock ==
    (rpc \in Selecting \cup {"pong"} /\ ~HasRoom(out_chan))
        => ENABLED RunnerWrite

\* C12: once stop() has been called on a runner that is running, run()
\* eventually returns Ok(Status::Canceled).
C12_StopReturnsCanceled ==
    (abort /\ rpc # "new") ~> (rpc = "done" /\ status = "Canceled")

\* C13: the step in which run() returns Canceled leaves the registry
\* without any subscriber, private ones included.
C13_StopClearsPrivate ==
    [][(rpc # "done" /\ rpc' = "done" /\ status' = "Canceled") =>
        \A E \in Events : event_map'[E] = <<>>]_vars

\* C14: the step that reads a line that fails to decode skips it: run()
\* stays in its loop, with nothing dispatched and no status returned.
C14_DecodeErrorSkipped ==
    [][RunnerDecodeErr =>
        /\ rpc' \in Selecting
        /\ status' = status
        /\ log' = log]_vars

\* C15: the step in which a read from the socket fails makes run() return
\* that I/O error.
C15_ReadErrorFatal ==
    [][RunnerReadErr => (rpc' = "done" /\ status' = "IoError")]_vars

\* C16: the step in which a write or flush fails makes run() return that
\* I/O error without the chunk counting as written, and once run() has
\* returned nothing more is written.
C16_WriteErrorFatal ==
    [][/\ RunnerWriteErr =>
            (rpc' = "done" /\ status' = "IoError" /\ written' = written)
       /\ rpc = "done" => (written' = written /\ status' = status)]_vars

\* C16 witness: two chunks were enqueued, the write of the first failed,
\* and neither it nor the chunk enqueued after it was written.
C16_Witness ==
    /\ status = "IoError"
    /\ nwrites = 2
    /\ written = <<>>

\* C17: the step in which the socket reports end of input makes run()
\* return Ok(Status::Eof) without dispatching, and once run() has returned
\* no frame is dispatched.
C17_EofReturnsEof ==
    [][/\ RunnerReadEof => (rpc' = "done" /\ status' = "Eof" /\ log' = log)
       /\ rpc = "done" => (log' = log /\ rpc' = "done")]_vars

\* C17 witness: run() returned Eof after one frame, with the socket able to
\* deliver more.
C17_Witness ==
    /\ rpc = "done"
    /\ status = "Eof"
    /\ Len(log) = 1
    /\ Len(log) < MaxFrames

C19_AllAndRawGetEveryFrame ==
    [][Dispatching =>
        LET m == Dispatched
            primary == IF Route(m.command) # None /\ m.ok
                       THEN {Route(m.command)} ELSE {}
        IN  \A E \in {"All", "Raw"} \cup primary :
                \A id \in LiveIds(E) : queue'[id] = Append(queue[id], m)]_vars

\* C19 witness: a frame of a command without an arm was just dispatched
\* and is held by a subscriber of All and by a subscriber of Raw.
C19_Witness ==
    /\ log # <<>>
    /\ Route(log[Len(log)].command) = None
    /\ sevent["s1"] = "All" /\ sevent["s2"] = "Raw"
    /\ queue["s1"] = <<log[Len(log)]>>
    /\ queue["s2"] = <<log[Len(log)]>>

\* The command tokens of the events of the subscribe mapping table.
TableCommand ==
    [E \in Events \ {"All", "Raw"} |->
        CASE E = "IrcReady" -> {"001"}
          [] E = "Ready" -> {"376"}
          [] E = "Names" -> {"353", "366"}
          [] E = "Cap" -> {"CAP"}
          [] E = "ClearChat" -> {"CLEARCHAT"}
          [] E = "ClearMsg" -> {"CLEARMSG"}
          [] E = "GlobalUserState" -> {"GLOBALUSERSTATE"}
          [] E = "HostTarget" -> {"HOSTTARGET"}
          [] E = "Join" -> {"JOIN"}
          [] E = "Mode" -> {"MODE"}
          [] E = "Notice" -> {"NOTICE"}
          [] E = "Part" -> {"PART"}
          [] E = "Ping" -> {"PING"}
          [] E = "Pong" -> {"PONG"}
          [] E = "Privmsg" -> {"PRIVMSG"}
          [] E = "Reconnect" -> {"RECONNECT"}
          [] E = "RoomState" -> {"ROOMSTATE"}
          [] E = "UserNotice" -> {"USERNOTICE"}
          [] E = "UserState" -> {"USERSTATE"}]

\* C20: the dispatch of a well-formed frame that carries the command token
\* of an event of the mapping table appends it to the channel of every
\* live subscriber of that event.
C20_TableEventsDelivered ==
    [][(Dispatching /\ Dispatched.ok) =>
        \A E \in DOMAIN TableCommand :
            Dispatched.command \in TableCommand[E] =>
                \A id \in LiveIds(E) :
                    queue'[id] = Append(queue[id], Dispatched)]_vars

\* C21: the dispatch of a frame whose command token is HOSTTARGET, and of
\* one whose token is HOSTARGET, appends it to the channel of every live
\* subscriber of HostTarget.
C21_BothHostTokensDelivered ==
    [][(Dispatching /\ Dispatched.command \in {"HOSTTARGET", "HOSTARGET"}) =>
        \A id \in LiveIds("HostTarget") :
            queue'[id] = Append(queue[id], Dispatched)]_vars

\* C22: Message::parse returns a message or its failure value for every
\* line; no call ends in a panic.
C22_ParseTotal == result # <<>> => ~IsPanic(result[1])

\* The segments of a tag block, and the key and the value of a segment:
\* the text before and after its first '=', the whole segment and the
\* empty value when it holds none.
Segments(s) == SplitStr(Drop(s, 1), <<";">>)
SegKey(p) == IF Find(p, "=") = NotFound THEN p ELSE Take(p, Find(p, "="))
SegVal(p) == IF Find(p, "=") = NotFound THEN <<>> ELSE Drop(p, Find(p, "=") + 1)

\* C23: Tags::parse gives every non-empty segment of the tag block an
\* entry under its key, whose value is that of the last segment with that
\* key (the empty value for `key=` and for a key without '=').
C23_TagsMapEverySegment ==
    result # <<>> =>
        LET segs == Segments(input)
            tags == result[1]
        IN  \A i \in 1..Len(segs) :
                segs[i] # <<>> =>
                    LET last == Max({j \in 1..Len(segs) :
                                        SegKey(segs[j]) = SegKey(segs[i])})
                    IN  /\ SegKey(segs[i]) \in DOMAIN tags
                        /\ tags[SegKey(segs[i])] = SegVal(segs[last])

\* The complete frames of a buffer, CRLF included, in order.
FramesOf(buf) ==
    LET bodies == SplitTerminator(buf, CRLF)
    IN  [i \in 1..Len(bodies) |-> [raw |-> bodies[i] \o CRLF]]

\* What C24 asks of a call: it succeeded, the messages so far are the
\* first frames of the buffer in order (never more than the buffer holds),
\* the returned offset is 0 when the decoded frame ends the buffer and the
\* index just past its CRLF otherwise.
DecodedInOrder(d) ==
    LET frames == FramesOf(input)
        n == Len(d.out)
    IN  /\ d.ret.ok
        /\ n <= Len(frames)
        /\ d.out = Take(frames, n)
        /\ d.ret.next = IF n = Len(frames) THEN 0 ELSE Len(frames[n].raw)

\* C24 (amended): the caller that passes, each time, what is left of the
\* slice it passed to the previous call gets the k frames in order; each
\* returned offset is an index into the slice of that call, just past the
\* decoded frame's CRLF, and 0 exactly when that CRLF ends the buffer.
C24_DecodeOneBySlice ==
    (result # <<>> /\ result[1].how = "slice") => DecodedInOrder(result[1])

\* C24 witness: the slice caller has decoded three frames, the last call
\* returning 0.
C24_Witness ==
    /\ result # <<>>
    /\ result[1].how = "slice"
    /\ Len(result[1].out) = 3
    /\ result[1].ret.next = 0

\* C24 (as stated): whichever way the caller follows the returned offset,
\* into the last slice or into the buffer, it gets the k frames in order.
C24_DecodeOneByOffset == result # <<>> => DecodedInOrder(result[1])

\* A step of the Client that reads `line`.
Reads(line) == Len(input') = Len(input) + 1 /\ input'[Len(input')] = line

\* C25: read_message of the server's `NOTICE * :Improperly formatted auth`
\* returns Err(InvalidRegistration) and invokes no filter.
C25_BadAuthIsInvalidRegistration ==
    [][Reads(BadAuthLine) =>
        /\ result' = <<ClientErr("InvalidRegistration")>>
        /\ invoked' = invoked]_vars

\* C25 witness: with a live Notice filter registered, the bad-auth notice
\* was read, the call returned InvalidRegistration, no filter has run.
C25_Witness ==
    /\ \E i \in 1..Len(filters) : filters[i].key = "Notice"
    /\ input # <<>> /\ input[Len(input)] = BadAuthLine
    /\ result = <<ClientErr("InvalidRegistration")>>
    /\ invoked = <<>>

\* The invocations a read that returns Ok(msg) owes: one for every filter
\* registered for the variant of msg and not yet removed, in the order of
\* registration.
Owed(msg) ==
    LET live == SelectSeq(registered,
                          LAMBDA f : f.key = msg.what /\ f.tok \notin offed)
    IN  [i \in 1..Len(live) |-> [tok |-> live[i].tok, msg |-> msg]]

\* C27: a read that returns a message invokes, exactly once, every filter
\* registered for its type and not removed since, and no other; a read
\* that fails, Client::on and Client::off invoke none; Client::off returns
\* true the first time it is given a token and false ever after.
C27_FilterOnUntilOff ==
    [][/\ Len(input') = Len(input) + 1 =>
            invoked' = invoked \o (IF result'[1].ok THEN Owed(result'[1].val)
                                   ELSE <<>>)
       /\ Len(input') = Len(input) => invoked' = invoked
       /\ (Len(input') = Len(input) /\ tokgen' = tokgen) =>
            result'[1].ret = (result'[1].tok \notin offed)]_vars

\* C27 witness: of two PrivMsg filters the first was removed, then a
\* PRIVMSG was read: the second filter alone has run, once.
C27_Witness ==
    /\ Len(registered) = 2
    /\ \A i \in 1..2 : registered[i].key = "PrivMsg"
    /\ offed = {0}
    /\ input = <<PrivmsgLine>>
    /\ Len(invoked) = 1 /\ invoked[1].tok = 1

\* What C26 expects on the wire after a register that succeeds: a
\* `CAP REQ` line for each capability of the config but Generic, in the
\* order of the config, then the PASS line, then the NICK line.
CapReq(cap) ==
    <<"CAP", SP, "REQ", SP, ":">> \o
        <<CASE cap = "Membership" -> "trovo.tv/membership"
            [] cap = "Commands" -> "trovo.tv/commands"
            [] cap = "Tags" -> "trovo.tv/tags">>
HandshakeLines(config) ==
    LET caps == SelectSeq(config.caps, LAMBDA c : c # "Generic")
    IN  [i \in 1..Len(caps) |-> CapReq(caps[i]) \o CRLF]
            \o << <<"PASS", SP>> \o config.token \o CRLF,
                  <<"NICK", SP>> \o config.nick \o CRLF >>
Handshake(config) == Concat(HandshakeLines(config))

\* The complete lines on the wire.
WireLines == Len(SplitStr(wire, CRLF)) - 1

\* C26: register whose writes all succeed returns Ok and has written the
\* whole handshake, in order; register whose failAt-th write fails returns
\* the error and has written a beginning of the handshake that ends
\* within its failAt-th line, so none of the later lines.
C26_RegisterWritesInOrder ==
    [][\A failAt \in 0..(MaxCaps + 2), fail \in WriteFails \cup {"none"} :
          Register(failAt, fail) =>
            IF failAt = 0
            THEN result' = <<ClientOk(<<>>)>> /\ wire' = Handshake(input)
            ELSE /\ result' = <<ClientErr("Write")>>
                 /\ IsPrefix(wire',
                             Concat(Take(HandshakeLines(input), failAt)))
                 /\ IsPrefix(Concat(Take(HandshakeLines(input), failAt - 1)),
                             wire')]_vars

\* C26 witness: a config of three capabilities, Generic among them; the
\* write of the second line failed after the first was written whole.
C26_Witness ==
    /\ result = <<ClientErr("Write")>>
    /\ Len(input.caps) = 3
    /\ \E i \in 1..3 : input.caps[i] = "Generic"
    /\ WireLines = 1
    /\ Len(RegisterLines(input)) = 4

\* The takes that completed in the window of length Period that starts
\* at time t.
TookIn(t) == {i \in 1..Len(took) : took[i] >= t /\ took[i] < t + Period}

\* C28: no window of length Period holds more than Capacity completed
\* takes, whatever the writers and the timing of their calls.
C28_RateWindow == \A t \in 0..MaxTime : Cardinality(TookIn(t)) <= Capacity

\* ------------------------------------------------- C29: outbound order ----
\* The chunks enqueued so far, in the order of their enqueueing, as long as
\* none was dropped: those written, then those still in the channel.
Outbound == written \o out_chan

\* C29: while the runner is running, the chunks written to the socket
\* followed by the chunks waiting in the outbound channel form one sequence
\* that only ever grows at its end, by the chunk just enqueued; and the
\* socket receives, whole, the oldest chunk of the channel and nothing else.
\* So chunks are written in the order of their enqueueing, none dropped and
\* none written twice.
C29_OutboundInOrder ==
    [][rpc' # "done" =>
        /\ \/ Outbound' = Outbound
           \/ /\ Len(out_chan') = Len(out_chan) + 1
              /\ written' = written
              /\ Outbound' = Append(Outbound, out_chan'[Len(out_chan')])
        /\ \/ written' = written
           \/ /\ out_chan # <<>>
              /\ written' = Append(written, Head(out_chan))
              /\ out_chan' = Tail(out_chan)]_vars

\* Two chunks were enqueued while the first was still waiting, and both
\* have been written by a runner that is still running.
C29_Witness ==
    /\ rpc \in Selecting
    /\ nwrites >= 2
    /\ Len(written) >= 2
    /\ written[1] # written[2]

\* ----------------------------------------------------------- ng/commands ----
\* A string is a sequence of symbols, as above; a channel name and a user
\* name are sequences of symbols, a numeral is a sequence of decimal digits.
DecDigits == <<"0", "1", "2", "3", "4", "5", "6", "7", "8", "9">>

\* usize::to_string: the decimal numeral of n, most significant digit first.
RECURSIVE UsizeToString(_)
UsizeToString(n) ==
    IF n < 10 THEN <<DecDigits[n + 1]>>
    ELSE UsizeToString(n \div 10) \o <<DecDigits[(n % 10) + 1]>>

\* ByteWriter::command(channel, data): "PRIVMSG ", the channel, " :", the
\* parts of data separated by single spaces, CRLF.
RECURSIVE JoinParts(_)
JoinParts(data) ==
    IF data = <<>> THEN <<>>
    ELSE IF Len(data) = 1 THEN data[1]
    ELSE data[1] \o <<SP>> \o JoinParts(Tail(data))

ByteWriterCommand(channel, data) ==
    <<"PRIVMSG", SP>> \o channel \o <<SP, ":">> \o JoinParts(data) \o CRLF

\* The constructors: each command is a value that borrows its arguments.
raid(source, target) == [type |-> "Raid", source |-> source, target |-> target]
unmod(channel, username) ==
    [type |-> "Unmod", channel |-> channel, username |-> username]
vips(channel) == [type |-> "Vips", channel |-> channel]
emote_only(channel) == [type |-> "EmoteOnly", channel |-> channel]
\* duration: impl Into<Option<usize>>, <<>> for None; unwrap_or(120).
slow(channel, duration) ==
    [type |-> "Slow", channel |-> channel,
     duration |-> IF duration = <<>> THEN 120 ELSE duration[1]]

\* impl Encodable for each command.
RaidEncode(self) ==
    ByteWriterCommand(self.source, <<<<"/", "raid">>, self.target>>)
UnmodEncode(self) ==
    ByteWriterCommand(self.channel, <<<<"/", "unmod">>, self.username>>)
VipsEncode(self) == ByteWriterCommand(self.channel, <<<<"/", "vips">>>>)
EmoteOnlyEncode(self) ==
    ByteWriterCommand(self.channel, <<<<"/", "emoteonly">>>>)
\* A slow that writes the verb and leaves its duration out (what C30 must
\* tell apart).
SlowEncodeVerbOnly(self) ==
    ByteWriterCommand(self.channel, <<<<"/", "slow">>>>)
SlowEncode(self) ==
    ByteWriterCommand(self.channel,
                      <<<<"/", "slow">>, UsizeToString(self.duration)>>)

\* Encodable::encode, dispatched on the type of the command.
Encode(self) ==
    CASE self.type = "Raid" -> RaidEncode(self)
      [] self.type = "Unmod" -> UnmodEncode(self)
      [] self.type = "Vips" -> VipsEncode(self)
      [] self.type = "EmoteOnly" -> EmoteOnlyEncode(self)
      [] self.type = "Slow" -> SlowEncode(self)

\* The durations a caller passes to slow, besides None.
MaxDuration == 12
ChannelNames == {<<"#", "museun">>, <<"#", "a">>, <<"b">>}
UserNames == {<<"museun">>, <<"a">>}
ModerationCommands ==
    {raid(s, t) : s \in ChannelNames, t \in ChannelNames}
    \cup {unmod(c, u) : c \in ChannelNames, u \in UserNames}
    \cup {vips(c) : c \in ChannelNames}
    \cup {emote_only(c) : c \in ChannelNames}
    \cup {slow(c, d) : c \in ChannelNames,
                       d \in {<<>>} \cup {<<n>> : n \in 0..MaxDuration}}

InitEncode ==
    /\ InitSys
    /\ InitClient
    /\ InitRate
    /\ InitNg
    /\ InitConc
    /\ input \in ModerationCommands
    /\ result = <<>>

\* The caller: one command, encoded once into an empty buffer.
EncodeCall ==
    /\ result = <<>>
    /\ result' = <<Encode(input)>>
    /\ UNCHANGED <<input, client_vars, rate_vars, sys_vars, ng_vars,
                   conc_vars>>

NextEncode == EncodeCall

SpecEncode == InitEncode /\ [][NextEncode]_vars

\* ------------------------------------------- C30: moderation commands ----
\* The value of a decimal numeral.
RECURSIVE DecValue(_)
DecValue(s) ==
    IF s = <<>> THEN 0
    ELSE DecValue(SubSeq(s, 1, Len(s) - 1)) * 10
         + (CHOOSE d \in 0..9 : DecDigits[d + 1] = s[Len(s)])

\* The numeral of n: the digits whose value is n, without a leading zero.
Numeral(n) ==
    CHOOSE s \in Strings({DecDigits[i] : i \in 1..10}, 3) :
        /\ s # <<>>
        /\ DecValue(s) = n
        /\ Len(s) > 1 => s[1] # "0"

\* What each command is in chat: its channel, its verb and its arguments.
ChannelOf(cmd) == IF cmd.type = "Raid" THEN cmd.source ELSE cmd.channel
VerbOf(cmd) ==
    CASE cmd.type = "Raid" -> "raid"
      [] cmd.type = "Unmod" -> "unmod"
      [] cmd.type = "Vips" -> "vips"
      [] cmd.type = "EmoteOnly" -> "emoteonly"
      [] cmd.type = "Slow" -> "slow"
ArgsOf(cmd) ==
    CASE cmd.type = "Raid" -> <<cmd.target>>
      [] cmd.type = "Unmod" -> <<cmd.username>>
      [] cmd.type = "Slow" -> <<Numeral(cmd.duration)>>
      [] OTHER -> <<>>

\* C30: a moderation command encodes to `PRIVMSG <channel> :/<verb>`, then
\* each of its arguments after one space, then CRLF, and nothing else.
C30_ModerationEncoding ==
    result # <<>> =>
        LET args == ArgsOf(input)
            tail == [i \in 1..Len(args) |-> <<SP>> \o args[i]]
        IN  result[1] = <<"PRIVMSG", SP>> \o ChannelOf(input)
                        \o <<SP, ":", "/", VerbOf(input)>>
                        \o Concat(tail) \o CRLF

\* slow(channel, None) was encoded: its duration is the default, 120.
C30_Witness ==
    /\ result # <<>>
    /\ input = slow(<<"#", "museun">>, <<>>)
    /\ result[1] = <<"PRIVMSG", SP, "#", "museun", SP, ":", "/", "slow", SP,
                     "1", "2", "0", "\r", "\n">>

\* ------------------------------------------------------- C31: CAP frames ----
\* The CAP frames the server may send: the prefix, CAP, up to MaxArgs
\* arguments and the trailing data.
MaxArgs == 3
CapArgs == {"*", "ACK", "NAK"}
CapFrames ==
    [args : UNION {[1..k -> CapArgs] : k \in 0..MaxArgs},
     data : {"trovo.tv/tags", "foobar"}]

RECURSIVE SpaceBefore(_)
SpaceBefore(args) ==
    IF args = <<>> THEN <<>>
    ELSE <<SP, Head(args)>> \o SpaceBefore(Tail(args))

CapLine(f) ==
    <<":", "tmi.trovo.tv", SP, "CAP">> \o SpaceBefore(f.args)
        \o <<SP, ":", f.data>>

InitCap ==
    /\ InitSys
    /\ InitClient
    /\ InitRate
    /\ InitNg
    /\ InitConc
    /\ input \in {CapLine(f) : f \in CapFrames}
    /\ result = <<>>

SpecCap == InitCap /\ [][NextParse]_vars

\* The frame whose line was parsed.
CapFrameRead == CHOOSE f \in CapFrames : CapLine(f) = input

\* C31: the Cap message parsed from a CAP frame is acknowledged if and only
\* if the second argument of the frame is ACK, and its capability is the
\* trailing data of the frame.
C31_CapAcknowledged ==
    result # <<>> =>
        LET f == CapFrameRead
        IN  /\ result[1].kind = "Cap"
            /\ result[1].acknowledge
                   <=> (Len(f.args) >= 2 /\ f.args[2] = "ACK")
            /\ result[1].cap = <<f.data>>

\* ----------------------------------------- messages/global_user_state ----
\* A tag value is a string of characters; a tag that is absent is <<>>, a
\* tag that is present with value v is <<v>>.
HexChars == {"0", "4", "6", "9", "B", "F", "b", "f"}
ToAsciiUpper(c) == CASE c = "b" -> "B" [] c = "f" -> "F" [] OTHER -> c
NamedColors == {"Blue", "Red"}
DefaultColor == [kind |-> "Named", name |-> "White"]

\* Color::from_str: `#RRGGBB` in either case, or the name of a preset.
ColorFromStr(s) ==
    IF Len(s) = 7 /\ s[1] = "#" /\ \A i \in 2..7 : s[i] \in HexChars
    THEN [ok |-> TRUE,
          color |-> [kind |-> "Rgb",
                     hex |-> [i \in 1..6 |-> ToAsciiUpper(s[i + 1])]]]
    ELSE IF Len(s) = 1 /\ s[1] \in NamedColors
    THEN [ok |-> TRUE, color |-> [kind |-> "Named", name |-> s[1]]]
    ELSE [ok |-> FALSE, color |-> DefaultColor]

MessageOk(v) == [ok |-> TRUE, val |-> v, err |-> "", name |-> ""]
MessageError(err, name) == [ok |-> FALSE, val |-> <<>>, err |-> err, name |-> name]

\* from_irc with the `.filter(|s| !s.is_empty())` of the color left out
\* (what C32 must tell apart).
GlobalUserStateFromIrcNoFilter(msg) ==
    IF msg.command # "GLOBALUSERSTATE"
    THEN MessageError("ExpectedCommand", "GLOBALUSERSTATE")
    ELSE IF msg.tags.user_id = <<>>
    THEN MessageError("ExpectedTag", "user-id")
    ELSE IF msg.tags.color # <<>> /\ ~ColorFromStr(msg.tags.color[1]).ok
    THEN MessageError("CannotParseTag", "color")
    ELSE MessageOk([user_id |-> msg.tags.user_id[1],
                    display_name |-> msg.tags.display_name,
                    color |-> IF msg.tags.color = <<>> THEN DefaultColor
                              ELSE ColorFromStr(msg.tags.color[1]).color])

\* GlobalUserState::from_irc
GlobalUserStateFromIrc(msg) ==
    LET color == IF msg.tags.color # <<>> /\ msg.tags.color[1] # <<>>
                 THEN <<ColorFromStr(msg.tags.color[1])>>
                 ELSE <<>>
    IN  IF msg.command # "GLOBALUSERSTATE"
        THEN MessageError("ExpectedCommand", "GLOBALUSERSTATE")
        ELSE IF msg.tags.user_id = <<>>
        THEN MessageError("ExpectedTag", "user-id")
        ELSE IF color # <<>> /\ ~color[1].ok
        THEN MessageError("CannotParseTag", "color")
        ELSE MessageOk([user_id |-> msg.tags.user_id[1],
                        display_name |-> msg.tags.display_name,
                        color |-> IF color = <<>> THEN DefaultColor
                                  ELSE color[1].color])

\* The frames handed to from_irc.
ColorTags ==
    {<<>>, <<<<>>>>,
     <<<<"#", "F", "F", "6", "9", "B", "4">>>>,
     <<<<"#", "f", "f", "6", "9", "b", "4">>>>,
     <<<<"Red">>>>,
     <<<<"#", "F", "F", "6">>>>,
     <<<<"#", "G", "G", "6", "9", "B", "4">>>>,
     <<<<"n", "o">>>>}
UserStateFrames ==
    [command : {"GLOBALUSERSTATE", "USERSTATE"},
     tags : [user_id : {<<>>, <<<<>>>>, <<<<"4", "2">>>>},
             display_name : {<<>>, <<<<"shaken_bot">>>>},
             color : ColorTags]]

InitUserState ==
    /\ InitSys
    /\ InitClient
    /\ InitRate
    /\ InitNg
    /\ InitConc
    /\ input \in UserStateFrames
    /\ result = <<>>

FromIrcCall ==
    /\ result = <<>>
    /\ result' = <<GlobalUserStateFromIrc(input)>>
    /\ UNCHANGED <<input, client_vars, rate_vars, sys_vars, ng_vars,
                   conc_vars>>

NextUserState == FromIrcCall

SpecUserState == InitUserState /\ [][NextUserState]_vars

\* C32: on a GLOBALUSERSTATE frame, from_irc fails with ExpectedTag{user-id}
\* when the user-id tag is absent; otherwise a color tag that is absent or
\* empty gives the default white, a non-empty color tag that does not parse
\* fails with CannotParseTag{color}, and in every remaining case the
\* conversion succeeds, with the color that was parsed.
C32_GlobalUserState ==
    (result # <<>> /\ input.command = "GLOBALUSERSTATE") =>
        LET r == result[1]
            t == input.tags
        IN  IF t.user_id = <<>>
            THEN ~r.ok /\ r.err = "ExpectedTag" /\ r.name = "user-id"
            ELSE IF t.color = <<>> \/ t.color = <<<<>>>>
            THEN r.ok /\ r.val.color = [kind |-> "Named", name |-> "White"]
                      /\ r.val.user_id = t.user_id[1]
            ELSE IF ~ColorFromStr(t.color[1]).ok
            THEN ~r.ok /\ r.err = "CannotParseTag" /\ r.name = "color"
            ELSE r.ok /\ r.val.color = ColorFromStr(t.color[1]).color
                      /\ r.val.user_id = t.user_id[1]

\* A frame with a user-id and an empty color tag was converted: the color
\* is the default.
C32_Witness ==
    /\ result # <<>>
    /\ input.command = "GLOBALUSERSTATE"
    /\ input.tags.user_id = <<<<"4", "2">>>>
    /\ input.tags.color = <<<<>>>>
    /\ result[1].ok
    /\ result[1].val.color = DefaultColor

\* --------------------------------------- C33, C37: clears and wait_for ----
\* The system restricted to the clears of one event: the socket delivers
\* 001 frames, users call wait_for::<IrcReady>, one user stream subscribes
\* to Ping (next to the runner's private subscription) and users clear the
\* subscriptions of IrcReady or of Ping.
NextClearOne ==
    \/ RunStart
    \/ RunnerRead(ReadyFrame)
    \/ WaitNext
    \/ Subscribe("s1", "Ping")
    \/ \E E \in {WaitEvent, "Ping"} : ClearSubscriptions(E)

SpecClearOne == Init /\ [][NextClearOne]_vars

\* The system restricted to wait_for next to every clear: SpecWait, and
\* users that clear the subscriptions of IrcReady.
NextWaitClear ==
    \/ NextWait
    \/ ClearSubscriptions(WaitEvent)

SpecWaitClear == Init /\ [][NextWaitClear]_vars

\* What clear_subscriptions::<E> returns: old - list.len().
ClearSubscriptionsReturn(E) ==
    Len(event_map[E]) - Len(ClearMap(event_map, E)[E])

\* C33: clear_subscriptions::<T> removes exactly the non-private subscribers
\* of T and keeps the private ones in their order, returns the number it
\* removed, which is what count_subscribers::<T> was just before, and leaves
\* the list of every other event and the wait_for cache unchanged.
C33_ClearOneEvent ==
    [][\A E \in {WaitEvent, "Ping"} :
        ClearSubscriptions(E) =>
            /\ event_map'[E] = SelectSeq(event_map[E], LAMBDA e : e.private)
            /\ ClearSubscriptionsReturn(E) = CountSubscribers(E)
            /\ ClearSubscriptionsReturn(E)
                   = Len(event_map[E]) - Len(event_map'[E])
            /\ \A F \in Events \ {E} : event_map'[F] = event_map[F]
            /\ cached' = cached]_vars

\* clear_subscriptions::<Ping> has removed the user's subscription and kept
\* the runner's private one, with a wait_for pending on IrcReady and a
\* value in the cache.
C33_Witness ==
    /\ cleared["s1"].by = "clear"
    /\ Registered(PingId) /\ ~Registered("s1")
    /\ cached[WaitEvent] # <<>>
    /\ \E w \in Waiters : Registered(w)

\* ------------------------------------------ C34: failed projections ----
\* C34: the dispatch of a frame whose typed projection fails leaves the
\* subscriber list of its variant as it was (nobody pruned) and hands
\* nothing to the subscribers of that variant; the runner stays in its
\* loop; the frame is appended to the channel of every live subscriber of
\* All and of Raw; and no subscriber of a typed variant ever holds a frame
\* that does not project.
C34_FailedProjectionSkipped ==
    [][/\ (Dispatching /\ ~Dispatched.ok /\ Route(Dispatched.command) # None) =>
            LET E == Route(Dispatched.command)
            IN  /\ event_map'[E] = event_map[E]
                /\ \A i \in 1..Len(event_map[E]) :
                      queue'[event_map[E][i].id] = queue[event_map[E][i].id]
                /\ rpc' = rpc /\ status' = status
                /\ \A F \in {"All", "Raw"} : \A id \in LiveIds(F) :
                      queue'[id] = Append(queue[id], Dispatched)
       /\ \A s \in Streams :
            sevent'[s] \notin {None, "All", "Raw"} =>
                \A i \in 1..Len(queue'[s]) : queue'[s][i].ok]_vars

\* A PRIVMSG that does not project was dispatched after a stream
\* subscribed to Privmsg and another to All: the first holds nothing and is
\* still registered, the second holds the frame.
C34_Witness ==
    /\ Len(log) = 1 /\ ~log[1].ok
    /\ sevent["s1"] = "Privmsg" /\ rx["s1"] = "open" /\ Registered("s1")
    /\ sub_at["s1"] = 0 /\ queue["s1"] = <<>> /\ yielded["s1"] = <<>>
    /\ sevent["s2"] = "All" /\ queue["s2"] = <<log[1]>>

\* ------------------------------------------- ng: EventMap, Dispatcher ----
\* EventMap::register::<T>: a new channel, its sender pushed on the list
\* of T under the next Id.
EventMapRegister(em, T) ==
    [inner |-> [em.inner EXCEPT ![T] = Append(@, em.id)], id |-> em.id + 1]

\* A remove that takes the quick path whatever the set holds (what C36
\* must tell apart).
EventMapRemoveNothing(em, T, values) == em

\* EventMap::remove::<T>: the list of T keeps the ids not in values.
EventMapRemove(em, T, values) ==
    IF values = {} THEN em
    ELSE [em EXCEPT !.inner[T] = SelectSeq(@, LAMBDA h : h \notin values)]

\* EventMap::send::<T> on the pair [emap, recv]: every handler of T is sent
\* the message; those whose channel is closed are collected and removed.
EventMapSend(d, T, msg) ==
    LET handlers == d.emap.inner[T]
        bad == {handlers[i] : i \in {j \in 1..Len(handlers) :
                                        d.recv[handlers[j]].state # "open"}}
    IN  [emap |-> EventMapRemove(d.emap, T, bad),
         recv |-> [h \in HandlerIds |->
                     IF h \in {handlers[i] : i \in 1..Len(handlers)} \ bad
                     THEN [d.recv[h] EXCEPT !.got = Append(@, msg)]
                     ELSE d.recv[h]]]

\* Dispatcher::dispatch, the match on the command: the recognized commands
\* (two of them here) and the catch-all arm.
NgRoute(command) ==
    CASE command = "001" -> "IrcReady"
      [] command = "CAP" -> "Cap"
      [] OTHER -> None

\* The frames handed to dispatch: CAP with and without its trailing data
\* (Cap::from_irc fails on the second), 001, and a command of no variant.
NgFrames ==
    {Frame("CAP", "", TRUE), Frame("CAP", "", FALSE), Frame("001", "", TRUE),
     Frame("FOO", "", TRUE)}

\* Dispatcher::dispatch on the pair d: Ok or Err, and the pair afterwards.
NgDispatchOf(d, m) ==
    IF NgRoute(m.command) # None
    THEN IF ~m.ok THEN [ok |-> FALSE, d |-> d]
         ELSE [ok |-> TRUE, d |-> EventMapSend(d, NgRoute(m.command), m)]
    ELSE [ok |-> TRUE,
          d |-> EventMapSend(EventMapSend(d, "IrcMessage", m),
                             "AllCommands", m)]

\* Dispatcher::subscribe::<T>
NgSubscribe(T) ==
    /\ emap.id < MaxHandlers
    /\ emap' = EventMapRegister(emap, T)
    /\ recv' = [recv EXCEPT ![emap.id].state = "open"]
    /\ UNCHANGED <<input, result, client_vars, rate_vars, conc_vars,
                   sys_vars>>

\* The user drops the stream of handler h: its channel closes, and what
\* it held goes with it.
NgDropStream(h) ==
    /\ recv[h].state = "open"
    /\ recv' = [recv EXCEPT ![h] = [state |-> "closed", got |-> <<>>]]
    /\ UNCHANGED <<input, result, emap, client_vars, rate_vars, conc_vars,
                   sys_vars>>

\* Dispatcher::dispatch(message)
NgDispatch(f) ==
    /\ Len(input) < MaxFrames
    /\ LET m == Msg(f, Len(input) + 1)
           r == NgDispatchOf([emap |-> emap, recv |-> recv], m)
       IN  /\ input' = Append(input, m)
           /\ result' = <<r.ok>>
           /\ emap' = r.d.emap
           /\ recv' = r.d.recv
    /\ UNCHANGED <<client_vars, rate_vars, conc_vars, sys_vars>>

NextNg ==
    \/ \E T \in NgTypes \ {"IrcReady"} : NgSubscribe(T)
    \/ \E h \in HandlerIds : NgDropStream(h)
    \/ \E f \in NgFrames : NgDispatch(f)

\* The users subscribe to Cap and to the two catch-all types.
SpecNg == Init /\ [][NextNg]_vars

\* The step dispatches a message; the message; the open handlers of T.
NgDispatching == Len(input') = Len(input) + 1
NgDispatched == input'[Len(input')]
OpenHandlers(T) ==
    SelectSeq(emap.inner[T], LAMBDA h : recv[h].state = "open")
Handlers(T) == {emap.inner[T][i] : i \in 1..Len(emap.inner[T])}

\* C35: every message dispatched whose conversion succeeds is delivered to
\* the open subscribers of AllCommands and of the raw IrcMessage, and to
\* those of its typed variant when its command has one.
C35_AllAndRawFedIdentically ==
    [][(NgDispatching /\ NgDispatched.ok) =>
        LET m == NgDispatched
            typed == {NgRoute(m.command)} \ {None}
        IN  \A T \in {"AllCommands", "IrcMessage"} \cup typed :
                \A h \in Handlers(T) :
                    recv[h].state = "open" =>
                        recv'[h].got = Append(recv[h].got, m)]_vars

\* C36: a dispatch that sends to the handlers of T leaves on the list of T
\* exactly the handlers whose channel is open, in registration order, each
\* of them sent the message once; the handlers of the lists it did not send
\* to are neither removed nor sent anything; and the ids on the lists are
\* pairwise different, each below the next id, which never decreases.
C36_SendPrunesClosed ==
    [][/\ (NgDispatching /\ result' = <<TRUE>>) =>
            LET m == NgDispatched
                sent == IF NgRoute(m.command) # None THEN {NgRoute(m.command)}
                        ELSE {"IrcMessage", "AllCommands"}
            IN  /\ \A T \in sent :
                      /\ emap'.inner[T] = OpenHandlers(T)
                      /\ \A i \in 1..Len(emap'.inner[T]) :
                            recv'[emap'.inner[T][i]].got
                                = Append(recv[emap'.inner[T][i]].got, m)
                /\ \A T \in NgTypes \ sent :
                      /\ emap'.inner[T] = emap.inner[T]
                      /\ \A h \in Handlers(T) : recv'[h] = recv[h]
       /\ emap'.id >= emap.id
       /\ \A T \in NgTypes : \A i \in 1..Len(emap'.inner[T]) :
            /\ emap'.inner[T][i] < emap'.id
            /\ \A U \in NgTypes : \A j \in 1..Len(emap'.inner[U]) :
                  emap'.inner[T][i] = emap'.inner[U][j] => (T = U /\ i = j)]_vars

\* Three handlers of Cap were registered, the second was dropped, and a
\* CAP message was dispatched: the list holds the first and the third, each
\* holding the message.
C36_Witness ==
    /\ emap.inner["Cap"] = <<0, 2>>
    /\ recv[1].state = "closed"
    /\ Len(input) = 1
    /\ recv[0].got = input /\ recv[2].got = input /\ recv[1].got = <<>>

\* ------------------------------------------ C37: wait_for and clears ----
\* The pending wait_for of w resolves in this step, a clear having removed
\* its subscription from the list.
ResolvesCleared(w) ==
    /\ wpc[w] = "pending"
    /\ wpc'[w] = "done"
    /\ ~Registered(w)

\* C37 as stated: a wait_for pending when its subscription was cleared
\* resolves to Err(ClientDisconnected) and the cache slot is empty.
C37_ClearedWaitDisconnects ==
    [][\A w \in Waiters :
        ResolvesCleared(w) =>
            /\ wres'[w] = ClientDisconnected
            /\ cached'[WaitEvent] = <<>>]_vars

\* C37 amended: a wait_for pending when its subscription was cleared
\* resolves to the message its channel was sent before the clear, which it
\* caches; when no message was sent on its channel it resolves to
\* Err(ClientDisconnected) and leaves the cache as it finds it.
C37_ClearedWaitDisconnectsUnlessSent ==
    [][\A w \in Waiters :
        ResolvesCleared(w) =>
            IF queue[w] = <<>>
            THEN /\ wres'[w] = ClientDisconnected
                 /\ cached' = cached
            ELSE /\ wres'[w] = Ok(Head(queue[w]))
                 /\ cached'[WaitEvent] = <<Head(queue[w])>>
                 /\ log[Head(queue[w]).seq] = Head(queue[w])
                 /\ Head(queue[w]).seq <= cleared[w].at]_vars

\* A frame was dispatched, and w1 resolved to Err(ClientDisconnected) after
\* a clear_subscriptions::<IrcReady>() with the cache empty, w2 after the
\* clear of the runner's stop.
C37_Witness ==
    /\ Len(log) >= 1
    /\ wpc["w1"] = "done" /\ wres["w1"] = ClientDisconnected
    /\ cleared["w1"].by = "clear"
    /\ wpc["w2"] = "done" /\ wres["w2"] = ClientDisconnected
    /\ cleared["w2"].by = "stop"
    /\ cached[WaitEvent] = <<>>

\* ------------------------------------------------- ClientExt::join_many ----
\* String::with_capacity(512): the capacity of the line buffer.
JoinCapacity == 512

\* The lists join_many is called with: up to MaxChannels names, a name
\* being its length in bytes (ASCII, so that to_lowercase keeps it) and
\* whether it starts with '#'.
MaxChannels == 3
NameLens == {1, 25, 253, 504, 505, 510}
JoinNames == [len : NameLens, hash : BOOLEAN]
ChannelLists == UNION {[1..k -> JoinNames] : k \in 0..MaxChannels}

\* The buffer tmp: its length, its capacity, and whether it starts with
\* "JOIN ".
NewTmp == [len |-> 0, cap |-> JoinCapacity, join |-> FALSE]

\* String::push / push_str of n bytes: the capacity grows (doubling, or to
\* what is needed) when the bytes do not fit.
TmpPush(tmp, n) ==
    [tmp EXCEPT !.len = @ + n,
                !.cap = IF tmp.len + n <= @ THEN @
                        ELSE Max({2 * @, tmp.len + n})]

\* Client::raw(tmp): the line written, as its length without the CRLF
\* write_line adds and whether it starts with "JOIN ".
RawLine(tmp) == [len |-> tmp.len, join |-> tmp.join]

\* One turn of the loop of join_many on the state [tmp, lines].
JoinManyStep(st, name) ==
    LET upper == st.tmp.cap - 2
        lower == (name.len + 1) + (IF st.tmp.len = 0 THEN 0 ELSE 1)
        flush == st.tmp.len + lower > upper
        tmp1 == IF flush THEN NewTmp ELSE st.tmp
        tmp2 == IF tmp1.len = 0
                THEN [TmpPush(tmp1, 5) EXCEPT !.join = TRUE]
                ELSE TmpPush(tmp1, 1)
        tmp3 == IF ~name.hash THEN TmpPush(tmp2, 1) ELSE tmp2
    IN  [tmp |-> TmpPush(tmp3, name.len),
         lines |-> IF flush THEN Append(st.lines, RawLine(st.tmp))
                   ELSE st.lines]

RECURSIVE JoinManyLoop(_, _)
JoinManyLoop(st, channels) ==
    IF channels = <<>> THEN st
    ELSE JoinManyLoop(JoinManyStep(st, Head(channels)), Tail(channels))

\* join_many(channels): the lines it writes, every write succeeding.
JoinMany(channels) ==
    LET st == JoinManyLoop([tmp |-> NewTmp, lines |-> <<>>], channels)
    IN  IF st.tmp.len # 0 THEN Append(st.lines, RawLine(st.tmp))
        ELSE st.lines

InitJoin ==
    /\ InitSys
    /\ InitClient
    /\ InitRate
    /\ InitNg
    /\ InitConc
    /\ input \in ChannelLists
    /\ result = <<>>

\* The caller: join_many on the list, once.
JoinManyCall ==
    /\ result = <<>>
    /\ result' = <<JoinMany(input)>>
    /\ UNCHANGED <<input, client_vars, rate_vars, sys_vars, ng_vars,
                   conc_vars>>

SpecJoin == InitJoin /\ [][JoinManyCall]_vars

\* C39: every line join_many writes is a JOIN command and has at most 512
\* bytes, its CRLF included.
C39_JoinLinesWithinLimit ==
    result # <<>> =>
        \A i \in 1..Len(result[1]) :
            /\ result[1][i].join
            /\ result[1][i].len + 2 <= JoinCapacity

\* ---------------------------------------------------- UserConfigBuilder ----
\* The number of builder calls in one run.
MaxCalls == 5

\* UserConfigBuilder::default
BuilderDefault ==
    [nick |-> <<>>, token |-> <<>>,
     caps |-> {"Membership", "Commands", "Tags"}]

\* A toggle that only ever removes (what C40 must tell apart).
ToggleCapRemoveOnly(b, cap) == [b EXCEPT !.caps = @ \ {cap}]

\* UserConfigBuilder::toggle_cap
ToggleCap(b, cap) ==
    IF cap \in b.caps THEN [b EXCEPT !.caps = @ \ {cap}]
    ELSE [b EXCEPT !.caps = @ \cup {cap}]

\* UserConfigBuilder::build: None if nick or token is missing.
Build(b) ==
    IF b.nick = <<>> \/ b.token = <<>> THEN <<>>
    ELSE <<[nick |-> b.nick[1], token |-> b.token[1], caps |-> b.caps]>>

\* The builder methods, by name: the capability each toggle passes on.
ToggleMethods == {"membership", "commands", "tags"}
CapOf(method) ==
    CASE method = "membership" -> "Membership"
      [] method = "commands" -> "Commands"
      [] method = "tags" -> "Tags"

InitBuilder ==
    /\ InitSys
    /\ InitClient
    /\ InitRate
    /\ InitNg
    /\ InitConc
    /\ input = [builder |-> BuilderDefault, calls |-> <<>>]
    /\ result = <<>>

\* One chained call on the builder, while it has not been built.
BuilderCall(method, b) ==
    /\ result = <<>>
    /\ Len(input.calls) < MaxCalls
    /\ input' = [builder |-> b, calls |-> Append(input.calls, method)]
    /\ UNCHANGED <<result, client_vars, rate_vars, sys_vars, ng_vars,
                   conc_vars>>

\* UserConfigBuilder::nick, ::token
BuilderNick == BuilderCall("nick", [input.builder EXCEPT !.nick = <<"museun">>])
BuilderToken == BuilderCall("token", [input.builder EXCEPT !.token = <<"oauth:t">>])

\* UserConfigBuilder::membership, ::commands, ::tags
BuilderToggle(method) ==
    BuilderCall(method, ToggleCap(input.builder, CapOf(method)))

\* UserConfigBuilder::build, consuming the builder.
BuilderBuild ==
    /\ result = <<>>
    /\ result' = <<Build(input.builder)>>
    /\ UNCHANGED <<input, client_vars, rate_vars, sys_vars, ng_vars,
                   conc_vars>>

NextBuilder ==
    \/ BuilderNick
    \/ BuilderToken
    \/ \E method \in ToggleMethods : BuilderToggle(method)
    \/ BuilderBuild

SpecBuilder == InitBuilder /\ [][NextBuilder]_vars

\* How often the method was called.
Calls(method) ==
    Cardinality({i \in 1..Len(input.calls) : input.calls[i] = method})

MaxUnits == 3
ConcLines == {<<"x">>, <<"y", "z">>}

\* The mutex of self.write is free: no clone is inside write_line.
LockFree == \A c \in ClientClones : cpc[c].step = "idle"

\* Whether a clone may take the lock: never refused (what C38 must tell
\* apart).
LockAlwaysFree(c) == TRUE

\* self.write.lock() returns when no other clone holds the guard.
LockAvailable(c) == \A o \in ClientClones \ {c} : cpc[o].step = "idle"

\* write_line up to the lock: the guard is taken.
WriteLineLock(c, line) ==
    /\ cpc[c].step = "idle"
    /\ Len(shared.calls) < MaxUnits
    /\ LockAvailable(c)
    /\ cpc' = [cpc EXCEPT ![c] = [line |-> line, step |-> "data",
                                  call |-> Len(shared.calls) + 1]]
    /\ shared' = [shared EXCEPT !.calls =
                    Append(@, [by |-> c, line |-> line, n |-> 0,
                               state |-> "open"])]
    /\ UNCHANGED <<input, result, client_vars, rate_vars, ng_vars, sys_vars>>

\* Write::write_all(buf) on the shared writer: all of buf, or an error after
\* k of its bytes; on the error write_line returns and drops the guard.
WriteAll(c, buf, next) ==
    \/ /\ shared' = [shared EXCEPT !.bytes = @ \o buf,
                               !.calls[cpc[c].call].n = @ + Len(buf)]
       /\ cpc' = [cpc EXCEPT ![c].step = next]
    \/ \E k \in 0..(Len(buf) - 1) :
          /\ shared' = [shared EXCEPT !.bytes = @ \o SubSeq(buf, 1, k),
                                  !.calls[cpc[c].call].n = @ + k,
                                  !.calls[cpc[c].call].state = "err"]
          /\ cpc' = [cpc EXCEPT ![c] = Idle]

\* write.write_all(data.as_bytes())
WriteLineData(c) ==
    /\ cpc[c].step = "data"
    /\ WriteAll(c, cpc[c].line, "crlf")
    /\ UNCHANGED <<input, result, client_vars, rate_vars, ng_vars, sys_vars>>

\* .and_then(|_| write.write_all(b"\r\n"))
WriteLineCrlf(c) ==
    /\ cpc[c].step = "crlf"
    /\ WriteAll(c, CRLF, "flush")
    /\ UNCHANGED <<input, result, client_vars, rate_vars, ng_vars, sys_vars>>

\* .and_then(|_| write.flush()), and the return: the guard is dropped.
WriteLineFlush(c) ==
    /\ cpc[c].step = "flush"
    /\ \/ shared' = [shared EXCEPT !.flushed = Len(shared.bytes),
                               !.calls[cpc[c].call].state = "ok"]
       \/ shared' = [shared EXCEPT !.calls[cpc[c].call].state = "err"]
    /\ cpc' = [cpc EXCEPT ![c] = Idle]
    /\ UNCHANGED <<input, result, client_vars, rate_vars, ng_vars, sys_vars>>

NextConc ==
    \/ \E c \in ClientClones : \E line \in ConcLines : WriteLineLock(c, line)
    \/ \E c \in ClientClones : WriteLineData(c)
    \/ \E c \in ClientClones : WriteLineCrlf(c)
    \/ \E c \in ClientClones : WriteLineFlush(c)

SpecConc == Init /\ [][NextConc]_vars

\* The bytes of the calls from the i-th on, each call contributing the
\* first n bytes of its unit.
RECURSIVE CallBytes(_)
CallBytes(calls) ==
    IF calls = <<>> THEN <<>>
    ELSE SubSeq(Head(calls).line \o CRLF, 1, Head(calls).n)
         \o CallBytes(Tail(calls))

\* C38 as stated: whenever no clone is inside write_line, the bytes that
\* reached the writer are the whole units of the calls made, in the order
\* of the lock, all of them flushed.
C38_WholeUnitsOnly ==
    LockFree =>
        /\ \A i \in 1..Len(shared.calls) :
              shared.calls[i].n = Len(shared.calls[i].line) + 2
        /\ shared.bytes = CallBytes(shared.calls)
        /\ shared.flushed = Len(shared.bytes)

\* C38 amended: the bytes that reached the writer are, call after call in
\* the order of the lock, the bytes of that call alone: its whole unit,
\* flushed, when it returned Ok, a prefix of its unit when it failed; only
\* the last call can be under way.
C38_UnitsNeverInterleave ==
    /\ shared.bytes = CallBytes(shared.calls)
    /\ \A i \in 1..Len(shared.calls) :
          /\ shared.calls[i].state = "open" =>
                /\ i = Len(shared.calls)
                /\ cpc[shared.calls[i].by].step # "idle"
          /\ shared.calls[i].state = "ok" =>
                /\ shared.calls[i].n = Len(shared.calls[i].line) + 2
                /\ shared.flushed >= Len(CallBytes(SubSeq(shared.calls, 1, i)))

\* Both clones wrote, one of them twice, every call returned Ok.
C38_Witness ==
    /\ LockFree
    /\ Len(shared.calls) = 3
    /\ \A i \in 1..3 : shared.calls[i].state = "ok"
    /\ {shared.calls[i].by : i \in 1..3} = ClientClones
    /\ shared.calls[1].by # shared.calls[2].by
    /\ shared.flushed = Len(shared.bytes)

====
